---- MODULE Spec2Model ----
\* Model of the shipping engine of go-lane-opensearch
\* (src/openSearchConnection.go): the record buffer, the Shipper loop
\* (processConnection), the flush owner protocol (flush / flushInner), the
\* asynchronous bulk-send goroutine, and the callers of log(), attach(),
\* detach(), connect() and setEmergencyHandler().
\*
\* Every section of code that runs under osc.mu is one atomic action; every
\* channel operation, callback invocation and wait is a step of its own.
\* A record is identified by its admission number (the value of
\* messagesQueued right after it was appended), so admission order is the
\* order of the naturals.
EXTENDS Integers, Sequences, FiniteSets, Bags, TLC

\* ---------------------------------------------------------------- bounds
MaxLogs == 2          \* log() calls over a run
NumProducers == 2     \* tasks calling log() concurrently
NumHandles == 2       \* lanes sharing the connection (the first + derived)
MaxReconnects == 1    \* Reconnect() calls over a run
NumSenders == 2       \* slots for bulk-send goroutines alive at once
MaxBulkFailures == 2  \* Bulk calls the server fails over a run
MaxCallLogs == 1      \* log() calls over a run of SpecCalls
MaxFullLogs == 12     \* log() calls over a run of SpecFull
MaxOnlineLogs == 4    \* log() calls over a run of SpecOnline
MaxRetryLogs == 4  \* log() calls over a run of SpecRetry
MaxHandlerLogs == 2  \* log() calls over a run of SpecHandler
MaxCreateLogs == 2  \* log() calls over a run of SpecCreate
MaxWakeLogs == 6      \* log() calls over a run of SpecWake
MaxFailingLogs == 4   \* log() calls over a run of SpecFailing

\* ------------------------------------------------------ program constants
OslDefaultLogThreshold == 100
OslDefaultMaxBufferSize == 100
OslDefaultBackoffInterval == 10     \* seconds
OslDefaultBackoffLimit == 600       \* seconds
ChanCap == 1                        \* capacity of wakeCh, refChangeCh, connectCh

Producers == 1..NumProducers
Handles == 1..NumHandles
Senders == 1..NumSenders

\* ------------------------------------------------------------- configs
\* A caller's *OslConfig: isNil, or the fields connect() looks at.
NilConfig ==
    [isNil |-> TRUE, host |-> "", transport |-> FALSE, index |-> "",
     LogThreshold |-> 0, MaxBufferSize |-> 0,
     BackoffInterval |-> 0, BackoffLimit |-> 0]

OnlineConfig ==
    [isNil |-> FALSE, host |-> "localhost", transport |-> TRUE, index |-> "testing",
     LogThreshold |-> 1, MaxBufferSize |-> 1,
     BackoffInterval |-> 1, BackoffLimit |-> 1]

OfflineConfig ==
    [isNil |-> FALSE, host |-> "", transport |-> FALSE, index |-> "",
     LogThreshold |-> 2, MaxBufferSize |-> 1,
     BackoffInterval |-> 0, BackoffLimit |-> 0]

NoIndexConfig ==
    [isNil |-> FALSE, host |-> "localhost", transport |-> TRUE, index |-> "",
     LogThreshold |-> 1, MaxBufferSize |-> 1,
     BackoffInterval |-> 1, BackoffLimit |-> 1]

\* The configs of testMakeFirstOslEx with testMax10 (times in milliseconds):
\* testMax10|testOffline|testNoIndex (TestLogTilFull), and testMax10 online.
Max10OfflineConfig ==
    [isNil |-> FALSE, host |-> "", transport |-> FALSE, index |-> "",
     LogThreshold |-> 10, MaxBufferSize |-> 10,
     BackoffInterval |-> 1, BackoffLimit |-> 10]

Max10OnlineConfig ==
    [isNil |-> FALSE, host |-> "localhost", transport |-> TRUE, index |-> "testing",
     LogThreshold |-> 10, MaxBufferSize |-> 10,
     BackoffInterval |-> 1, BackoffLimit |-> 10]

\* Offline Mode of the README: a lane that buffers while offline and is
\* connected later with Reconnect(); a small buffer and threshold.
BufferingOfflineConfig ==
    [isNil |-> FALSE, host |-> "", transport |-> FALSE, index |-> "",
     LogThreshold |-> 2, MaxBufferSize |-> 3,
     BackoffInterval |-> 1, BackoffLimit |-> 1]

BufferingOnlineConfig ==
    [isNil |-> FALSE, host |-> "localhost", transport |-> TRUE, index |-> "testing",
     LogThreshold |-> 2, MaxBufferSize |-> 3,
     BackoffInterval |-> 1, BackoffLimit |-> 1]

\* Any config a caller may pass: nil, or every combination of a present or
\* missing host, transport and index with negative, zero and positive
\* numeric fields.
FieldValues == {-1, 0, 3}

AnyConfigs ==
    {NilConfig} \cup
    {[isNil |-> FALSE, host |-> h, transport |-> t, index |-> i,
      LogThreshold |-> a, MaxBufferSize |-> b, BackoffInterval |-> c, BackoffLimit |-> d] :
        h \in {"", "localhost"}, t \in BOOLEAN, i \in {"", "testing"},
        a \in FieldValues, b \in FieldValues, c \in FieldValues, d \in FieldValues}

InitConfigs == {OnlineConfig, OfflineConfig}
BufferingConfigs == {BufferingOfflineConfig, BufferingOnlineConfig}
Max10Configs == {Max10OfflineConfig, Max10OnlineConfig}
ReconnectConfigs == {NilConfig, OnlineConfig, NoIndexConfig}

\* connect(), lines 144-179: the sanitized config, or the error.
DefaultIfZero(v, d) == IF v = 0 THEN d ELSE v

DefaultIfNotPositive(v, d) == IF v <= 0 THEN d ELSE v

\* line 154: cfg.OpenSearchIndex == "" && !cfg.offline, for a non-nil config
IndexNeverRequired(config, offline) == FALSE

IndexNameRequired(config, offline) == ~config.isNil /\ config.index = "" /\ ~offline

connect(config) ==
    LET offline == config.isNil \/ config.host = "" \/ ~config.transport
        index == IF config.isNil THEN "" ELSE config.index
    IN  IF IndexNameRequired(config, offline)
        THEN [err |-> "ErrIndexNameRequired",
              cfg |-> [offline |-> offline, OpenSearchIndex |-> index,
                       LogThreshold |-> config.LogThreshold,
                       MaxBufferSize |-> config.MaxBufferSize,
                       BackoffInterval |-> config.BackoffInterval,
                       BackoffLimit |-> config.BackoffLimit]]
        ELSE [err |-> "",
              cfg |-> [offline |-> offline, OpenSearchIndex |-> index,
                       LogThreshold |->
                           DefaultIfNotPositive(config.LogThreshold, OslDefaultLogThreshold),
                       MaxBufferSize |->
                           DefaultIfNotPositive(config.MaxBufferSize, OslDefaultMaxBufferSize),
                       BackoffInterval |->
                           DefaultIfNotPositive(config.BackoffInterval, OslDefaultBackoffInterval),
                       BackoffLimit |->
                           DefaultIfNotPositive(config.BackoffLimit, OslDefaultBackoffLimit)]]

\* ------------------------------------------------------------- state
VARIABLES
    logBuffer,            \* osc.logBuffer: sequence of record ids
    messagesQueued,       \* osc.messagesQueued
    messagesSent,         \* osc.messagesSent
    messagesSentFailed,   \* osc.messagesSentFailed
    emergencyFn,          \* osc.emergencyFn: "nil" or a handler name
    cfg,                  \* osc.cfg (sanitized)
    flushing,             \* osc.flushing: 0 (nil) or the sender slot owning the WaitGroup
    backoffDuration,      \* osc.backoffDuration
    wakeCh,               \* number of signals buffered in osc.wakeCh
    refChangeCh,          \* osc.refChangeCh: buffered refRequests
    connectCh,            \* osc.connectCh: buffered connectRequests
    client,               \* processConnection's client: "nil" or "client"
    refs,                 \* processConnection's refs
    shipper,              \* processConnection's position and locals
    sender,               \* the bulk-send goroutines, by slot
    producer,             \* the tasks calling log(): position and locals
    handle,               \* the lanes: position in attach()/detach()
    reconnector,          \* the task calling Reconnect(): position, calls made, last error
    acked,                \* records the server received, in order (successful Bulk calls)
    bulkFailures,         \* Bulk calls that returned an error so far
    handoffs,             \* bag of the invocations of the emergency callback (and of the
                          \* batches lost with no callback installed, fn = "nil")
    sharderFn,            \* osc.sharderFn: the index sharder installed, or "nil"
    sharderCalls          \* invocations of the sharder so far (the count of
                          \* TestSharding2's closure)

vars == <<logBuffer, messagesQueued, messagesSent, messagesSentFailed, emergencyFn,
          cfg, flushing, backoffDuration, wakeCh, refChangeCh, connectCh, client,
          refs, shipper, sender, producer, handle, reconnector, acked, bulkFailures,
          handoffs, sharderFn, sharderCalls>>

bufferVars == <<logBuffer, messagesQueued, messagesSent, messagesSentFailed>>
chanVars == <<wakeCh, refChangeCh, connectCh>>
callerVars == <<producer, handle, reconnector>>
observed == <<acked, bulkFailures, handoffs>>
sharding == <<sharderFn, sharderCalls>>

\* A bulk-send goroutine's locals: the batch it owns (logBuffer), final, the
\* callback read when the batch was taken (ef), its backoffDuration and
\* whether bulkInsert returned an error (err), the request body bulkInsert
\* encoded (jsonData: its lines). A slot whose goroutine has
\* ended (pc = "free") keeps the locals the goroutine ended with. The field
\* mu of a goroutine says that it holds osc.mu.
IdleSender ==
    [pc |-> "free", batch |-> <<>>, final |-> FALSE, ef |-> "nil", backoffDuration |-> 0,
     err |-> FALSE, mu |-> FALSE, jsonData |-> <<>>]

\* processConnection's locals: the WaitGroup waited on (pwg, a sender slot or
\* 0), the lane whose refRequest is being served (req, or 0) and the value of
\* messagesQueued when that request was made (reqQueued).  pumpInterval is
\* the local of that name, 0 at the top of the loop before lines 194-201.
IdleShipper ==
    [pc |-> "select", final |-> FALSE, batch |-> <<>>, ef |-> "nil",
     pwg |-> 0, req |-> 0, reqQueued |-> 0, mu |-> FALSE, pumpInterval |-> 0]

\* State after NewOpenSearchLane(ctx, config) returned without error:
\* newOpenSearchConnection started the Shipper, connect(config) was
\* acknowledged and the first lane has attached.
InitWith(configs) ==
    /\ logBuffer = <<>>
    /\ messagesQueued = 0
    /\ messagesSent = 0
    /\ messagesSentFailed = 0
    /\ emergencyFn = "nil"
    /\ \E c \in configs :
          /\ cfg = connect(c).cfg
          /\ client = IF connect(c).cfg.offline THEN "nil" ELSE "client"
    /\ flushing = 0
    /\ backoffDuration = 0
    /\ wakeCh = 0
    /\ refChangeCh = <<>>
    /\ connectCh = <<>>
    /\ refs = 1
    /\ shipper = IdleShipper
    /\ sender = [s \in Senders |-> IdleSender]
    /\ producer = [p \in Producers |->
                       [pc |-> "idle", dropped |-> <<>>, ef |-> "nil", mu |-> FALSE]]
    /\ handle = [h \in Handles |-> IF h = 1 THEN "attached" ELSE "new"]
    /\ reconnector = [pc |-> "idle", calls |-> 0, err |-> ""]
    /\ acked = <<>>
    /\ bulkFailures = 0
    /\ handoffs = EmptyBag
    /\ sharderFn = "nil"
    /\ sharderCalls = 0

Init == InitWith(InitConfigs)

\* An invocation ef(batch) of the emergency callback captured as ef; a nil
\* callback is recorded too (the batch is lost without being handed over).
InvokeInstalled(ef, batch, kind) ==
    handoffs (+) SetToBag({[fn |-> emergencyFn, batch |-> batch, kind |-> kind]})

Invoke(ef, batch, kind) == handoffs (+) SetToBag({[fn |-> ef, batch |-> batch, kind |-> kind]})

\* lines 437-457: emergencyLog() reads the callback under the lock and, if
\* one is installed, calls it with a batch of one new record whose AppName
\* is "OpenSearchLane" (record 0 here); nothing is written without one.
emergencyLogNothing(ef) == handoffs
emergencyLog(ef) ==
    IF ef # "nil" THEN Invoke(ef, <<0>>, "diagnostic") ELSE handoffs

\* ------------------------------------------------------------ osc.mu
\* The goroutines that hold the mutex.
Holders ==
    {<<"log", p>> : p \in {q \in Producers : producer[q].mu}}
        \cup {<<"send", s>> : s \in {t \in Senders : sender[t].mu}}
        \cup (IF shipper.mu THEN {<<"processConnection", 0>>} ELSE {})

\* osc.mu.Lock() returns only when no goroutine holds the mutex.
MuFree == Holders = {}

\* osc.mu.Unlock(): the caller's mu field afterwards.
StillLocked == TRUE

Unlocked == FALSE

\* ------------------------------------------------------------ log()
\* lines 105-118: how many records at the head of the buffer are dropped.
CutPoint(pending, bufLen, maxBufferSize) ==
    IF pending >= maxBufferSize
    THEN LET toRemove == (pending + 1) - maxBufferSize
             inFlight == pending - bufLen
             cutPoint == toRemove + inFlight
         IN  IF cutPoint > 0
             THEN (IF cutPoint >= bufLen THEN bufLen ELSE cutPoint)
             ELSE 0
    ELSE 0

\* lines 124-125: whether log() signals the Shipper.
WakeNeeded(pending, logThreshold) == (pending % logThreshold) = 0

\* line 115: dropped = osc.logBuffer[:cutPoint]
DroppedNewest(buffer, cutPoint) == SubSeq(buffer, (Len(buffer) - cutPoint) + 1, Len(buffer))

Dropped(buffer, cutPoint) == SubSeq(buffer, 1, cutPoint)

\* lines 103-130 up to the channel send: the critical section of log().
\* The producers are interchangeable, so the lowest idle one makes the call;
\* maxLogs bounds the number of calls over a run.
LogAppendUpTo(p, maxLogs) ==
    /\ producer[p].pc = "idle"
    /\ \A q \in Producers : q < p => producer[q].pc # "idle"
    /\ messagesQueued < maxLogs
    /\ LET pending == messagesQueued - messagesSent
           cutPoint == CutPoint(pending, Len(logBuffer), cfg.MaxBufferSize)
           dropped == Dropped(logBuffer, cutPoint)
           kept == SubSeq(logBuffer, cutPoint + 1, Len(logBuffer))
           wake == WakeNeeded((messagesQueued + 1) - messagesSent, cfg.LogThreshold)
       IN  /\ logBuffer' = Append(kept, messagesQueued + 1)
           /\ messagesQueued' = messagesQueued + 1
           /\ producer' = [producer EXCEPT ![p] =
                  [pc |-> IF wake THEN "wake"
                          ELSE IF Len(dropped) > 0 THEN "dropped" ELSE "idle",
                   dropped |-> dropped, ef |-> "nil", mu |-> Unlocked]]
    /\ UNCHANGED <<messagesSent, messagesSentFailed, emergencyFn, sharding, cfg, flushing,
                   backoffDuration, chanVars, client, refs, shipper, sender,
                   handle, reconnector, observed>>

LogAppend(p) == LogAppendUpTo(p, MaxLogs)

\* line 127: osc.wakeCh <- struct{}{} ; a send on a channel of capacity 1
\* completes only when the slot is free.
WakeSendReady == wakeCh < ChanCap

LogWake(p) ==
    /\ producer[p].pc = "wake"
    /\ WakeSendReady
    /\ wakeCh' = wakeCh + 1
    /\ producer' = [producer EXCEPT ![p].pc =
           IF Len(producer[p].dropped) > 0 THEN "dropped" ELSE "idle"]
    /\ UNCHANGED <<bufferVars, emergencyFn, sharding, cfg, flushing, backoffDuration,
                   refChangeCh, connectCh, client, refs, shipper, sender,
                   handle, reconnector, observed>>

\* line 134: osc.messagesSentFailed += len(dropped)
CountDroppedCall(failed, dropped) == failed + 1

CountDropped(failed, dropped) == failed + Len(dropped)

\* lines 132-136: account the dropped records and read the callback.
LogDropAccount(p) ==
    /\ producer[p].pc = "dropped"
    /\ messagesSentFailed' = CountDropped(messagesSentFailed, producer[p].dropped)
    /\ producer' = [producer EXCEPT ![p].pc = "callback", ![p].ef = emergencyFn,
                                    ![p].mu = Unlocked]
    /\ UNCHANGED <<logBuffer, messagesQueued, messagesSent, emergencyFn, sharding, cfg,
                   flushing, backoffDuration, chanVars, client, refs, shipper,
                   sender, handle, reconnector, observed>>

\* lines 138-140: ef(dropped), outside the lock.
LogDropCallback(p) ==
    /\ producer[p].pc = "callback"
    /\ handoffs' = Invoke(producer[p].ef, producer[p].dropped, "drop")
    /\ producer' = [producer EXCEPT ![p] =
           [pc |-> "idle", dropped |-> <<>>, ef |-> "nil", mu |-> producer[p].mu]]
    /\ UNCHANGED <<bufferVars, emergencyFn, sharding, cfg, flushing, backoffDuration,
                   chanVars, client, refs, shipper, sender, handle, reconnector,
                   acked, bulkFailures>>

\* ------------------------------------------------- setEmergencyHandler()
\* lines 73-79. The application installs its callback once, before it logs
\* (as every test of the repository does).
SetEmergencyHandler(fn) ==
    /\ emergencyFn = "nil"
    /\ fn # "nil"
    /\ messagesQueued = 0
    /\ emergencyFn' = fn
    /\ UNCHANGED <<bufferVars, sharding, cfg, flushing, backoffDuration, chanVars,
                   client, refs, shipper, sender, callerVars, observed>>

\* The callbacks an application installs one after the other, named in the
\* order of their installation.
Installable(prior) ==
    IF prior = "nil" THEN {"fn1", "fn2"} ELSE IF prior = "fn1" THEN {"fn2"} ELSE {}

\* lines 73-79 at any time of the connection's life: the callback is
\* swapped under the lock.
setEmergencyHandler(fn) ==
    /\ fn \in Installable(emergencyFn)
    /\ emergencyFn' = fn
    /\ UNCHANGED <<bufferVars, sharding, cfg, flushing, backoffDuration, chanVars,
                   client, refs, shipper, sender, callerVars, observed>>

\* ------------------------------------------------------ setIndexSharder()
\* The sharders of the tests: TestSharding2 numbers the index by its calls
\* (fmt.Sprintf("%s-%d", baseName, count)), TestSharding appends "-123".
Sharders == {"counting", "fixed"}

\* An index name: the configured name and the suffix a sharder gave it.
IndexName(baseName, suffix) == [baseName |-> baseName, suffix |-> suffix]

\* sharderFn(index), as its calls-th invocation.
Shard(fn, baseName, calls) ==
    IF fn = "counting" THEN IndexName(baseName, ToString(calls))
    ELSE IndexName(baseName, "123")

\* lines 81-87. The application installs its sharder once, at any time.
SetIndexSharder(fn) ==
    /\ sharderFn = "nil"
    /\ fn # "nil"
    /\ sharderFn' = fn
    /\ UNCHANGED <<bufferVars, emergencyFn, sharderCalls, cfg, flushing, backoffDuration,
                   chanVars, client, refs, shipper, sender, callerVars, observed>>

\* ------------------------------------------------ flush() / flushInner()
FreeSlots == {s \in Senders : sender[s].pc = "free"}
FirstFree == CHOOSE s \in FreeSlots : \A t \in FreeSlots : s <= t

\* Where the Shipper continues when flush() returns.
FlushReturn(final) ==
    IF final THEN [shipper EXCEPT !.pc = "finalAck", !.batch = <<>>, !.ef = "nil", !.pwg = 0]
    ELSE IdleShipper

\* flush(), line 258: the caller may become the flush owner.
MayOwnFlushIgnoringMarker == TRUE

MayOwnFlush == flushing = 0

\* line 289: osc.logBuffer = make([]*OslMessage, 0, len(logBuffer))
TakeLeavesRecords(buffer) == buffer

TakeBuffer(buffer) == <<>>

\* line 288: logBuffer := osc.logBuffer, the batch of this flush.
BatchWithoutNewest(buffer) == SubSeq(buffer, 1, Len(buffer) - 1)

Batch(buffer) == buffer

\* line 292: there is nowhere to send the batch to.
NoDestinationBoth(cl, index) == cl = "nil" /\ index = ""

NoDestination(cl, index) == cl = "nil" \/ index = ""

\* lines 359-361: a final flush waits for its goroutine.
AlwaysWaitsForSend(final) == TRUE

NeverWaitsForSend(final) == FALSE

WaitsForSend(final) == final

\* flushInner(), lines 282-306, entered holding osc.mu.
flushInner(final) ==
    IF Len(logBuffer) = 0
    THEN /\ backoffDuration' = 0
         /\ shipper' = [FlushReturn(final) EXCEPT !.mu = Unlocked]
         /\ UNCHANGED <<logBuffer, flushing, sender>>
    ELSE /\ logBuffer' = TakeBuffer(logBuffer)
         /\ IF NoDestination(client, cfg.OpenSearchIndex)
            THEN /\ shipper' = [shipper EXCEPT !.pc = "emergency", !.final = final,
                                               !.batch = Batch(logBuffer),
                                               !.ef = emergencyFn,
                                               !.mu = Unlocked]
                 /\ UNCHANGED <<backoffDuration, flushing, sender>>
            ELSE /\ FreeSlots # {}
                 /\ flushing' = FirstFree
                 /\ sender' = [sender EXCEPT ![FirstFree] =
                        [pc |-> "start", batch |-> Batch(logBuffer), final |-> final,
                         ef |-> emergencyFn, backoffDuration |-> 0, err |-> FALSE,
                         mu |-> FALSE, jsonData |-> <<>>]]
                 /\ shipper' = IF WaitsForSend(final)
                               THEN [shipper EXCEPT !.pc = "waitSend", !.pwg = FirstFree,
                                                    !.mu = Unlocked]
                               ELSE [FlushReturn(final) EXCEPT !.mu = Unlocked]
                 /\ UNCHANGED backoffDuration

\* lines 265-271: a final flush waits for the flush owner, any other returns.
NeverWaitsForOwner(final) == FALSE

WaitsForOwner(final) == final

\* line 251: without a client a flush that is not final returns at once.
AlwaysFlushes(cl, final) == FALSE

NotConnected(cl, final) == cl = "nil" /\ ~final

\* flush(), lines 248-273: one pass of the owner loop.
flush(final) ==
    IF NotConnected(client, final)
    THEN /\ shipper' = IdleShipper
         /\ UNCHANGED <<logBuffer, backoffDuration, flushing, sender>>
    ELSE IF MayOwnFlush
         THEN flushInner(final)
         ELSE /\ shipper' = IF WaitsForOwner(final)
                            THEN [shipper EXCEPT !.pc = "waitPrior", !.pwg = flushing,
                                                 !.mu = Unlocked]
                            ELSE [FlushReturn(final) EXCEPT !.mu = Unlocked]
              /\ UNCHANGED <<logBuffer, backoffDuration, flushing, sender>>

\* ----------------------------------------------- processConnection()
\* lines 204-209: case req := <-osc.connectCh
ShipperConnect ==
    /\ shipper.pc = "select"
    /\ connectCh # <<>>
    /\ cfg' = Head(connectCh).config
    /\ backoffDuration' = 0
    /\ connectCh' = Tail(connectCh)
    /\ shipper' = [shipper EXCEPT !.pc = "newClient", !.mu = Unlocked]
    /\ UNCHANGED <<bufferVars, emergencyFn, sharding, flushing, wakeCh, refChangeCh, client,
                   refs, sender, callerVars, observed>>

\* lines 211-220 and 459-475: the loop's client after the connect case, nil
\* for an offline config and nil when opensearchapi.NewClient fails.
ClientDespiteError(offline, ok) == IF offline THEN "nil" ELSE "client"

NewClient(offline, ok) == IF offline \/ ~ok THEN "nil" ELSE "client"

\* lines 211-223: rebuild the client and acknowledge; newOpenSearchClient
\* may fail, which leaves client nil and the error in the request.
ShipperNewClient ==
    /\ shipper.pc = "newClient"
    /\ \E ok \in BOOLEAN :
          /\ cfg.offline => ok
          /\ client' = NewClient(cfg.offline, ok)
          /\ reconnector' = [reconnector EXCEPT !.pc = "idle",
                                 !.err = IF ok THEN "" ELSE "ClientError"]
    /\ shipper' = IdleShipper
    /\ UNCHANGED <<bufferVars, emergencyFn, sharding, cfg, flushing, backoffDuration, chanVars,
                   refs, sender, producer, handle, observed>>

\* line 228: the Shipper drains and exits.
LastDetachedOffByOne(r) == r <= 1

LastDetached(r) == r <= 0

\* line 234: req.wg.Done() lets the caller of attach() / detach() return.
NotAcknowledged(change) == IF change > 0 THEN "attaching" ELSE "detaching"

Acknowledged(change) == IF change > 0 THEN "attached" ELSE "closed"

\* lines 225-235: case req := <-osc.refChangeCh
ShipperRefChange ==
    /\ shipper.pc = "select"
    /\ refChangeCh # <<>>
    /\ LET req == Head(refChangeCh)
       IN  /\ refs' = refs + req.change
           /\ IF LastDetached(refs + req.change)
              THEN /\ shipper' = [shipper EXCEPT !.pc = "finalFlush", !.req = req.h,
                                                 !.reqQueued = req.queued]
                   /\ UNCHANGED handle
              ELSE /\ shipper' = IdleShipper
                   /\ handle' = [handle EXCEPT ![req.h] = Acknowledged(req.change)]
    /\ refChangeCh' = Tail(refChangeCh)
    /\ UNCHANGED <<bufferVars, emergencyFn, sharding, cfg, flushing, backoffDuration, wakeCh,
                   connectCh, client, sender, producer, reconnector, observed>>

\* line 237: the receive takes one signal out of the channel.
WakeLeftInChannel(n) == n

WakeReceived(n) == n - 1

\* lines 237-239: case <-osc.wakeCh
ShipperWake ==
    /\ shipper.pc = "select"
    /\ wakeCh > 0
    /\ wakeCh' = WakeReceived(wakeCh)
    /\ flush(FALSE)
    /\ UNCHANGED <<messagesQueued, messagesSent, messagesSentFailed, emergencyFn, sharding, cfg,
                   refChangeCh, connectCh, client, refs, callerVars, observed>>

\* lines 241-243: case <-time.After(pumpInterval)
ShipperTimer ==
    /\ shipper.pc = "select"
    /\ flush(FALSE)
    /\ UNCHANGED <<messagesQueued, messagesSent, messagesSentFailed, emergencyFn, sharding, cfg,
                   chanVars, client, refs, callerVars, observed>>

\* line 60 as set by the tests (osl_client_test.go line 172): the idle
\* interval, 25 ms where BackoffInterval is 1 ms.
PumpInterval == 25

\* lines 194-201: the interval of the timer the next select arms.
PumpIntervalFor(backoff) == IF backoff = 0 THEN PumpInterval ELSE backoff

\* lines 194-201: the top of the loop reads osc.backoffDuration under the
\* lock and settles the interval of this round's time.After.
ShipperLoopHead ==
    /\ shipper.pc = "select"
    /\ shipper.pumpInterval = 0
    /\ shipper' = [shipper EXCEPT !.pumpInterval = PumpIntervalFor(backoffDuration),
                                  !.mu = Unlocked]
    /\ UNCHANGED <<bufferVars, emergencyFn, sharding, cfg, flushing, backoffDuration,
                   chanVars, client, refs, sender, callerVars, observed>>

\* line 230: osc.flush(client, true), one pass of its loop.
ShipperFinalFlush ==
    /\ shipper.pc = "finalFlush"
    /\ flush(TRUE)
    /\ UNCHANGED <<messagesQueued, messagesSent, messagesSentFailed, emergencyFn, sharding, cfg,
                   chanVars, client, refs, callerVars, observed>>

\* lines 271 and 360: Wait() returns once the goroutine that owns the
\* WaitGroup has called wg.Done() (line 319), which ends it.
WaitReturnsAtOnce(pwg) == TRUE

WaitReturns(pwg) == sender[pwg].pc = "free"

\* line 271: (*pwg).Wait() returns once the owning goroutine called wg.Done().
ShipperWaitPrior ==
    /\ shipper.pc = "waitPrior"
    /\ WaitReturns(shipper.pwg)
    /\ shipper' = [shipper EXCEPT !.pc = "finalFlush", !.pwg = 0]
    /\ UNCHANGED <<bufferVars, emergencyFn, sharding, cfg, flushing, backoffDuration, chanVars,
                   client, refs, sender, callerVars, observed>>

\* lines 295-299: ef(logBuffer) when there is no client or no index.
ShipperEmergency ==
    /\ shipper.pc = "emergency"
    /\ handoffs' = Invoke(shipper.ef, shipper.batch, "offline")
    /\ shipper' = FlushReturn(shipper.final)
    /\ UNCHANGED <<bufferVars, emergencyFn, sharding, cfg, flushing, backoffDuration, chanVars,
                   client, refs, sender, callerVars, acked, bulkFailures>>

\* lines 359-361: wg.Wait() of the final flush.
ShipperWaitSend ==
    /\ shipper.pc = "waitSend"
    /\ WaitReturns(shipper.pwg)
    /\ shipper' = FlushReturn(TRUE)
    /\ UNCHANGED <<bufferVars, emergencyFn, sharding, cfg, flushing, backoffDuration, chanVars,
                   client, refs, sender, callerVars, observed>>

\* lines 231-232: req.wg.Done() and return; the last detach() returns.
ShipperFinalAck ==
    /\ shipper.pc = "finalAck"
    /\ handle' = [handle EXCEPT ![shipper.req] = "closed"]
    /\ shipper' = [shipper EXCEPT !.pc = "done"]
    /\ UNCHANGED <<bufferVars, emergencyFn, sharding, cfg, flushing, backoffDuration, chanVars,
                   client, refs, sender, producer, reconnector, observed>>

\* ------------------------------------- the bulk-send goroutine (309-356)
SenderUnchanged ==
    UNCHANGED <<emergencyFn, sharding, cfg, chanVars, client, refs, shipper, callerVars>>

\* lines 410-419 and 429: the two lines of one record, the action line
\* {"create":{"_index": index}} and the record itself.
CreateLine(index) == [create |-> TRUE, index |-> index, record |-> 0]
RecordLine(r) == [create |-> FALSE, index |-> IndexName("", ""), record |-> r]

\* line 413: whether the sharder names the index.
ShardsAnyIndex(fn, index) == fn # "nil"

Shards(fn, index) == fn # "nil" /\ index # ""

\* generateBulkJson(), lines 406-435, for a batch that marshals: the lines
\* of the request body and the sharder's invocation count afterwards.
RECURSIVE generateBulkJson(_, _, _, _)
generateBulkJson(batch, index, fn, calls) ==
    IF batch = <<>>
    THEN [jsonData |-> <<>>, calls |-> calls]
    ELSE LET called == IF Shards(fn, index) THEN calls + 1 ELSE calls
             name == IF Shards(fn, index) THEN Shard(fn, index, called)
                     ELSE IndexName(index, "")
             rest == generateBulkJson(Tail(batch), index, fn, called)
         IN  [jsonData |-> <<CreateLine(name), RecordLine(Head(batch))>> \o rest.jsonData,
              calls |-> rest.calls]

\* lines 310-312, then bulkInsert() encodes the batch with the index and
\* the sharder installed at that moment and issues client.Bulk(): the call
\* is in flight.
SenderStart(s) ==
    /\ sender[s].pc = "start"
    /\ LET encoded == generateBulkJson(sender[s].batch, cfg.OpenSearchIndex,
                                       sharderFn, sharderCalls)
       IN  /\ sender' = [sender EXCEPT ![s].pc = "bulk",
                                       ![s].backoffDuration = backoffDuration,
                                       ![s].mu = Unlocked,
                                       ![s].jsonData = encoded.jsonData]
           /\ sharderCalls' = encoded.calls
    /\ UNCHANGED <<bufferVars, flushing, backoffDuration, observed, emergencyFn, sharderFn,
                   cfg, chanVars, client, refs, shipper, callerVars>>

\* line 389, err == nil: the server has received the batch.
SenderBulkOk(s) ==
    /\ sender[s].pc = "bulk"
    /\ acked' = acked \o sender[s].batch
    /\ sender' = [sender EXCEPT ![s].pc = "sent"]
    /\ UNCHANGED <<bufferVars, flushing, backoffDuration, bulkFailures, handoffs>>
    /\ SenderUnchanged

\* lines 326-330: the delay computed after a failure.
NextBackoffFlat(d, backoffInterval) == backoffInterval

NextBackoff(d, backoffInterval) == IF d = 0 THEN backoffInterval ELSE d * 2

\* lines 389-400 and 437-457, err != nil: emergencyLog() hands one
\* diagnostic record (id 0) to the callback installed at that moment; then
\* lines 324-330 compute the next delay.
BulkFails(s) ==
    /\ sender[s].pc = "bulk"
    /\ bulkFailures' = bulkFailures + 1
    /\ handoffs' = emergencyLog(emergencyFn)
    /\ sender' = [sender EXCEPT ![s].pc = "decide", ![s].err = TRUE,
           ![s].backoffDuration = NextBackoff(sender[s].backoffDuration, cfg.BackoffInterval)]
    /\ UNCHANGED <<bufferVars, flushing, backoffDuration, acked>>
    /\ SenderUnchanged

\* lines 384-387 and 406-435: generateBulkJson() marshals the records in
\* order; Unencodable are the records json.Marshal rejects.
Unencodable == {2}
Encodes(batch) == \A i \in DOMAIN batch : batch[i] \notin Unencodable

\* bulkInsert() with a batch that does not encode: generateBulkJson() hands
\* one diagnostic record to the callback (emergencyLog, lines 421 and 427)
\* and returns the error, no Bulk call is made; then lines 324-330 compute
\* the next delay, as for any other error.
EncodeFails(s) ==
    /\ sender[s].pc = "bulk"
    /\ ~Encodes(sender[s].batch)
    /\ handoffs' = emergencyLog(emergencyFn)
    /\ sender' = [sender EXCEPT ![s].pc = "decide", ![s].err = TRUE,
           ![s].backoffDuration = NextBackoff(sender[s].backoffDuration, cfg.BackoffInterval)]
    /\ UNCHANGED <<bufferVars, flushing, backoffDuration, acked, bulkFailures>>
    /\ SenderUnchanged

\* The server fails at most MaxBulkFailures Bulk calls over a run.
SenderBulkFail(s) == bulkFailures < MaxBulkFailures /\ BulkFails(s)

\* line 332: whether the batch is given up.
GiveUpAtLimit(d, backoffLimit, final) == (d >= backoffLimit) \/ final

GiveUpOnLimitOnly(d, backoffLimit, final) == d > backoffLimit

GiveUp(d, backoffLimit, final) == (d > backoffLimit) \/ final

SenderDecide(s) ==
    /\ sender[s].pc = "decide"
    /\ sender' = [sender EXCEPT ![s].pc =
           IF GiveUp(sender[s].backoffDuration, cfg.BackoffLimit, sender[s].final)
           THEN "giveup" ELSE "requeue"]
    /\ UNCHANGED <<bufferVars, flushing, backoffDuration, observed>>
    /\ SenderUnchanged

\* lines 334-338: reset the delay and call ef(logBuffer), the callback read
\* when the batch was taken.
SenderGiveUp(s) ==
    /\ sender[s].pc = "giveup"
    /\ handoffs' = Invoke(sender[s].ef, sender[s].batch, "giveup")
    /\ sender' = [sender EXCEPT ![s].pc = "lost", ![s].backoffDuration = cfg.BackoffInterval]
    /\ UNCHANGED <<bufferVars, flushing, backoffDuration, acked, bulkFailures>>
    /\ SenderUnchanged

\* line 344: osc.logBuffer = append(logBuffer, osc.logBuffer...)
RequeueAtTail(batch, buffer) == buffer \o batch

RequeueForgetsBatch(batch, buffer) == buffer

Requeue(batch, buffer) == batch \o buffer

SenderRequeue(s) ==
    /\ sender[s].pc = "requeue"
    /\ logBuffer' = Requeue(sender[s].batch, logBuffer)
    /\ sender' = [sender EXCEPT ![s].pc = "defer", ![s].mu = Unlocked]
    /\ UNCHANGED <<messagesQueued, messagesSent, messagesSentFailed, flushing,
                   backoffDuration, observed>>
    /\ SenderUnchanged

\* line 347: osc.messagesSentFailed += len(logBuffer)
CountFailedNever(failed, batch) == failed

CountFailed(failed, batch) == failed + Len(batch)

\* lines 342-348, else branch: the batch given up is counted as failed.
SenderCountFailed(s) ==
    /\ sender[s].pc = "lost"
    /\ messagesSentFailed' = CountFailed(messagesSentFailed, sender[s].batch)
    /\ sender' = [sender EXCEPT ![s].pc = "defer", ![s].mu = Unlocked]
    /\ UNCHANGED <<logBuffer, messagesQueued, messagesSent, flushing, backoffDuration,
                   observed>>
    /\ SenderUnchanged

\* line 351: osc.messagesSent += len(logBuffer)
CountSentTwice(sent, batch) == sent + 2 * Len(batch)

CountSent(sent, batch) == sent + Len(batch)

\* lines 351-354: osc.messagesSent += len(logBuffer); backoffDuration = 0
SenderCountSent(s) ==
    /\ sender[s].pc = "sent"
    /\ messagesSent' = CountSent(messagesSent, sender[s].batch)
    /\ sender' = [sender EXCEPT ![s].pc = "defer", ![s].backoffDuration = 0,
                                ![s].mu = Unlocked]
    /\ UNCHANGED <<logBuffer, messagesQueued, messagesSentFailed, flushing,
                   backoffDuration, observed>>
    /\ SenderUnchanged

\* line 318: osc.flushing = nil
MarkerLeftSet(marker) == marker

MarkerCleared(marker) == 0

\* lines 314-320: the deferred function publishes the delay, clears the
\* flushing marker and calls wg.Done(); the goroutine ends.
SenderDefer(s) ==
    /\ sender[s].pc = "defer"
    /\ backoffDuration' = sender[s].backoffDuration
    /\ flushing' = MarkerCleared(flushing)
    /\ sender' = [sender EXCEPT ![s].pc = "free", ![s].mu = Unlocked]
    /\ UNCHANGED <<bufferVars, observed>>
    /\ SenderUnchanged

\* ------------------------------------------------- attach() / detach()
\* createOpenSearchLane with a parent lane, then attach() up to the send.
\* A lane is derived from a lane that is attached (open).
Attach(h) ==
    /\ handle[h] = "new"
    /\ \E parent \in Handles : handle[parent] = "attached"
    /\ Len(refChangeCh) < ChanCap
    /\ refChangeCh' = Append(refChangeCh, [change |-> 1, h |-> h, queued |-> messagesQueued])
    /\ handle' = [handle EXCEPT ![h] = "attaching"]
    /\ UNCHANGED <<bufferVars, emergencyFn, sharding, cfg, flushing, backoffDuration, wakeCh,
                   connectCh, client, refs, shipper, sender, producer, reconnector,
                   observed>>

\* Close(): detach() up to the send.
Detach(h) ==
    /\ handle[h] = "attached"
    /\ Len(refChangeCh) < ChanCap
    /\ refChangeCh' = Append(refChangeCh, [change |-> -1, h |-> h, queued |-> messagesQueued])
    /\ handle' = [handle EXCEPT ![h] = "detaching"]
    /\ UNCHANGED <<bufferVars, emergencyFn, sharding, cfg, flushing, backoffDuration, wakeCh,
                   connectCh, client, refs, shipper, sender, producer, reconnector,
                   observed>>

\* ------------------------------------------------- Reconnect(config)
\* connect(), lines 144-184: sanitize, then submit to the Shipper.
Reconnect(config) ==
    /\ reconnector.pc = "idle"
    /\ reconnector.calls < MaxReconnects
    /\ LET r == connect(config)
       IN  IF r.err # ""
           THEN /\ reconnector' = [pc |-> "idle", calls |-> reconnector.calls + 1,
                                   err |-> r.err]
                /\ UNCHANGED connectCh
           ELSE /\ Len(connectCh) < ChanCap
                /\ connectCh' = Append(connectCh, [config |-> r.cfg, given |-> config])
                /\ reconnector' = [pc |-> "waiting", calls |-> reconnector.calls + 1,
                                   err |-> ""]
    /\ UNCHANGED <<bufferVars, emergencyFn, sharding, cfg, flushing, backoffDuration, wakeCh,
                   refChangeCh, client, refs, shipper, sender, producer, handle,
                   observed>>

\* ------------------------------------------------------ specification
EmergencyHandlers == {"fn1"}

Next ==
    \/ \E p \in Producers : LogAppend(p)
    \/ \E p \in Producers : LogWake(p)
    \/ \E p \in Producers : LogDropAccount(p)
    \/ \E p \in Producers : LogDropCallback(p)
    \/ \E fn \in EmergencyHandlers : SetEmergencyHandler(fn)
    \/ \E h \in Handles : Attach(h)
    \/ \E h \in Handles : Detach(h)
    \/ \E c \in ReconnectConfigs : Reconnect(c)
    \/ ShipperConnect
    \/ ShipperNewClient
    \/ ShipperRefChange
    \/ ShipperWake
    \/ ShipperTimer
    \/ ShipperFinalFlush
    \/ ShipperWaitPrior
    \/ ShipperEmergency
    \/ ShipperWaitSend
    \/ ShipperFinalAck
    \/ \E s \in Senders : SenderStart(s)
    \/ \E s \in Senders : SenderBulkOk(s)
    \/ \E s \in Senders : SenderBulkFail(s)
    \/ \E s \in Senders : SenderDecide(s)
    \/ \E s \in Senders : SenderGiveUp(s)
    \/ \E s \in Senders : SenderRequeue(s)
    \/ \E s \in Senders : SenderCountFailed(s)
    \/ \E s \in Senders : SenderCountSent(s)
    \/ \E s \in Senders : SenderDefer(s)

Spec == Init /\ [][Next]_vars

\* Heavy logging against a connected lane (TestHeavyLogging): producers,
\* the Shipper's wake, timer and refcount events and its bulk sends, with
\* LogThreshold = 1, no Reconnect() and no callback installed.
InitHeavy == Init /\ ~cfg.offline /\ cfg.LogThreshold = 1

SenderStep(s) ==
    \/ SenderStart(s)
    \/ SenderBulkOk(s)
    \/ SenderBulkFail(s)
    \/ SenderDecide(s)
    \/ SenderGiveUp(s)
    \/ SenderRequeue(s)
    \/ SenderCountFailed(s)
    \/ SenderCountSent(s)
    \/ SenderDefer(s)

NextHeavy ==
    \/ \E p \in Producers : LogAppend(p)
    \/ \E p \in Producers : LogWake(p)
    \/ \E p \in Producers : LogDropAccount(p)
    \/ \E p \in Producers : LogDropCallback(p)
    \/ \E h \in Handles : Attach(h)
    \/ \E h \in Handles : Detach(h)
    \/ ShipperRefChange
    \/ ShipperWake
    \/ ShipperTimer
    \/ ShipperFinalFlush
    \/ ShipperWaitPrior
    \/ ShipperWaitSend
    \/ ShipperFinalAck
    \/ \E s \in Senders : SenderStep(s)

\* Scheduling: a goroutine that can run does run; a Bulk call returns; Go's
\* select picks among its ready cases at random, so a wake signal that is
\* ready whenever the Shipper selects is received; senders blocked on a
\* channel are served in arrival order.
FairHeavy ==
    /\ \A p \in Producers :
          /\ SF_vars(LogWake(p))
          /\ WF_vars(LogDropAccount(p))
          /\ WF_vars(LogDropCallback(p))
    /\ SF_vars(ShipperWake)
    /\ WF_vars(ShipperFinalFlush)
    /\ WF_vars(ShipperWaitPrior)
    /\ WF_vars(ShipperWaitSend)
    /\ WF_vars(ShipperFinalAck)
    /\ \A s \in Senders : WF_vars(SenderStep(s))

SpecHeavy == InitHeavy /\ [][NextHeavy]_vars /\ FairHeavy

\* Logging until the buffer is full and beyond (TestLogTilFull,
\* TestLogBulkError): MaxBufferSize = LogThreshold = 10, offline or online,
\* up to MaxFullLogs log() calls, one lane that stays open.
InitFull == InitWith(Max10Configs)

NextFull ==
    \/ \E p \in Producers : LogAppendUpTo(p, MaxFullLogs)
    \/ \E p \in Producers : LogWake(p)
    \/ \E p \in Producers : LogDropAccount(p)
    \/ \E p \in Producers : LogDropCallback(p)
    \/ \E fn \in EmergencyHandlers : SetEmergencyHandler(fn)
    \/ ShipperWake
    \/ ShipperTimer
    \/ \E s \in Senders : SenderStart(s)
    \/ \E s \in Senders : SenderBulkOk(s)
    \/ \E s \in Senders : SenderBulkFail(s)
    \/ \E s \in Senders : SenderDecide(s)
    \/ \E s \in Senders : SenderRequeue(s)
    \/ \E s \in Senders : SenderCountSent(s)
    \/ \E s \in Senders : SenderDefer(s)

SpecFull == InitFull /\ [][NextFull]_vars

\* A lane that buffers offline and goes online with Reconnect(), or is
\* online from the start, with a server that accepts every Bulk call; the
\* lane stays open.
InitOnline == InitWith(BufferingConfigs)

NextOnline ==
    \/ \E p \in Producers : LogAppendUpTo(p, MaxOnlineLogs)
    \/ \E p \in Producers : LogWake(p)
    \/ \E p \in Producers : LogDropAccount(p)
    \/ \E p \in Producers : LogDropCallback(p)
    \/ Reconnect(BufferingOnlineConfig)
    \/ ShipperConnect
    \/ ShipperNewClient
    \/ ShipperWake
    \/ ShipperTimer
    \/ \E s \in Senders : SenderStart(s)
    \/ \E s \in Senders : SenderBulkOk(s)
    \/ \E s \in Senders : SenderCountSent(s)
    \/ \E s \in Senders : SenderDefer(s)

\* Scheduling: the timer of the select fires and a ready case of the
\* select is eventually taken; goroutines run; a Bulk call returns.
FairOnline ==
    /\ SF_vars(ShipperTimer)
    /\ SF_vars(ShipperWake)
    /\ SF_vars(ShipperConnect)
    /\ WF_vars(ShipperNewClient)
    /\ \A s \in Senders :
          /\ WF_vars(SenderStart(s))
          /\ WF_vars(SenderBulkOk(s))
          /\ WF_vars(SenderCountSent(s))
          /\ WF_vars(SenderDefer(s))

SpecOnline == InitOnline /\ [][NextOnline]_vars /\ FairOnline

\* A connected lane whose server fails every Bulk call (TestLogBulkError),
\* with no Reconnect(); the lane stays open.
InitFailing == InitWith({BufferingOnlineConfig})

NextFailing ==
    \/ \E p \in Producers : LogAppendUpTo(p, MaxFailingLogs)
    \/ \E p \in Producers : LogWake(p)
    \/ \E p \in Producers : LogDropAccount(p)
    \/ \E p \in Producers : LogDropCallback(p)
    \/ \E fn \in EmergencyHandlers : SetEmergencyHandler(fn)
    \/ ShipperWake
    \/ ShipperTimer
    \/ \E s \in Senders : SenderStart(s)
    \/ \E s \in Senders : BulkFails(s)
    \/ \E s \in Senders : SenderDecide(s)
    \/ \E s \in Senders : SenderGiveUp(s)
    \/ \E s \in Senders : SenderRequeue(s)
    \/ \E s \in Senders : SenderCountFailed(s)
    \/ \E s \in Senders : SenderDefer(s)

\* Scheduling: the timer of the select fires and a wake signal is
\* received; goroutines run; a Bulk call returns; a log() call blocked on
\* the wake channel proceeds when the slot is free.
FairFailing ==
    /\ SF_vars(ShipperTimer)
    /\ SF_vars(ShipperWake)
    /\ \A p \in Producers :
          /\ SF_vars(LogWake(p))
          /\ WF_vars(LogDropAccount(p))
          /\ WF_vars(LogDropCallback(p))
    /\ \A s \in Senders :
          /\ WF_vars(SenderStart(s))
          /\ WF_vars(BulkFails(s))
          /\ WF_vars(SenderDecide(s))
          /\ WF_vars(SenderGiveUp(s))
          /\ WF_vars(SenderRequeue(s))
          /\ WF_vars(SenderCountFailed(s))
          /\ WF_vars(SenderDefer(s))

SpecFailing == InitFailing /\ [][NextFailing]_vars /\ FairFailing

\* Reconnect() with any config, served by the Shipper (TestNilConfig,
\* TestIndexRequired and the Reconnect of testMakeFirstOslEx).
NextConnect ==
    \/ \E c \in AnyConfigs : Reconnect(c)
    \/ ShipperConnect
    \/ ShipperNewClient

SpecConnect == Init /\ [][NextConnect]_vars

\* A connected lane that buffers two records per batch, a sharder installed
\* at any time and a Reconnect(nil) that may take the index away while a
\* batch is waiting to be encoded; the server accepts every Bulk call.
InitSharding == InitWith({BufferingOnlineConfig})

NextSharding ==
    \/ \E p \in Producers : LogAppendUpTo(p, MaxOnlineLogs)
    \/ \E p \in Producers : LogWake(p)
    \/ \E p \in Producers : LogDropAccount(p)
    \/ \E p \in Producers : LogDropCallback(p)
    \/ \E fn \in Sharders : SetIndexSharder(fn)
    \/ Reconnect(NilConfig)
    \/ ShipperConnect
    \/ ShipperNewClient
    \/ ShipperWake
    \/ ShipperTimer
    \/ \E s \in Senders : SenderStart(s)
    \/ \E s \in Senders : SenderBulkOk(s)
    \/ \E s \in Senders : SenderCountSent(s)
    \/ \E s \in Senders : SenderDefer(s)

SpecSharding == InitSharding /\ [][NextSharding]_vars

\* A connected lane whose every log() signals the Shipper (LogThreshold 1)
\* and whose buffer holds three records, before its first timer tick: the
\* Shipper flushes on wake signals only; the server accepts every Bulk call.
SignalingConfig ==
    [isNil |-> FALSE, host |-> "localhost", transport |-> TRUE, index |-> "testing",
     LogThreshold |-> 1, MaxBufferSize |-> 3,
     BackoffInterval |-> 1, BackoffLimit |-> 1]

InitWake == InitWith({SignalingConfig})

NextWake ==
    \/ \E p \in Producers : LogAppendUpTo(p, MaxWakeLogs)
    \/ \E p \in Producers : LogWake(p)
    \/ \E p \in Producers : LogDropAccount(p)
    \/ \E p \in Producers : LogDropCallback(p)
    \/ ShipperWake
    \/ \E s \in Senders : SenderStart(s)
    \/ \E s \in Senders : SenderBulkOk(s)
    \/ \E s \in Senders : SenderCountSent(s)
    \/ \E s \in Senders : SenderDefer(s)

SpecWake == InitWake /\ [][NextWake]_vars

\* The lane of SpecWake with the timer, the top of the Shipper loop as a
\* step of its own, and a server that may refuse a Bulk call: select runs
\* once the interval of its timer is settled.
InitRetry == InitWith({SignalingConfig})

NextRetry ==
    \/ LogAppendUpTo(1, MaxRetryLogs)
    \/ LogWake(1)
    \/ LogDropAccount(1)
    \/ LogDropCallback(1)
    \/ ShipperLoopHead
    \/ shipper.pumpInterval > 0 /\ ShipperWake
    \/ shipper.pumpInterval > 0 /\ ShipperTimer
    \/ \E s \in Senders : SenderStep(s)

SpecRetry == InitRetry /\ [][NextRetry]_vars

\* A lane, connected or offline, whose application replaces the emergency
\* callback while records are logged, sent, given up and the lane is closed.
InitHandler == InitWith(InitConfigs)

NextHandler ==
    \/ \E fn \in {"fn1", "fn2"} : setEmergencyHandler(fn)
    \/ LogAppendUpTo(1, MaxHandlerLogs)
    \/ LogWake(1)
    \/ LogDropAccount(1)
    \/ LogDropCallback(1)
    \/ Detach(1)
    \/ ShipperRefChange
    \/ ShipperWake
    \/ ShipperTimer
    \/ ShipperFinalFlush
    \/ ShipperWaitPrior
    \/ ShipperEmergency
    \/ ShipperWaitSend
    \/ ShipperFinalAck
    \/ \E s \in Senders : SenderStep(s)

SpecHandler == InitHandler /\ [][NextHandler]_vars

\* newOpenSearchConnection() (lines 54-71) from its line 64 on: the struct
\* is zero but for its buffer and channels, and the Shipper runs.  The
\* constructor then calls connection.connect(config), the function behind
\* Reconnect(), once; the caller gets the connection only if that call
\* returns no error.
ZeroCfg ==
    [offline |-> FALSE, OpenSearchIndex |-> "", LogThreshold |-> 0,
     MaxBufferSize |-> 0, BackoffInterval |-> 0, BackoffLimit |-> 0]

InitCreate ==
    /\ logBuffer = <<>>
    /\ messagesQueued = 0
    /\ messagesSent = 0
    /\ messagesSentFailed = 0
    /\ emergencyFn = "nil"
    /\ cfg = ZeroCfg
    /\ client = "nil"
    /\ flushing = 0
    /\ backoffDuration = 0
    /\ wakeCh = 0
    /\ refChangeCh = <<>>
    /\ connectCh = <<>>
    /\ refs = 0
    /\ shipper = IdleShipper
    /\ sender = [s \in Senders |-> IdleSender]
    /\ producer = [p \in Producers |->
                       [pc |-> "idle", dropped |-> <<>>, ef |-> "nil", mu |-> FALSE]]
    /\ handle = [h \in Handles |-> "new"]
    /\ reconnector = [pc |-> "idle", calls |-> 0, err |-> ""]
    /\ acked = <<>>
    /\ bulkFailures = 0
    /\ handoffs = EmptyBag
    /\ sharderFn = "nil"
    /\ sharderCalls = 0

\* lines 66-70: connect(config) has returned; with an error the connection
\* is not returned to the caller.
Created == reconnector.pc = "idle" /\ reconnector.calls = 1 /\ reconnector.err = ""

\* createOpenSearchLane() for the first lane (part_002 lines 345-357): the
\* connection was created without error; attach() up to the send.
AttachFirst ==
    /\ Created
    /\ handle[1] = "new"
    /\ Len(refChangeCh) < ChanCap
    /\ refChangeCh' = Append(refChangeCh, [change |-> 1, h |-> 1, queued |-> messagesQueued])
    /\ handle' = [handle EXCEPT ![1] = "attaching"]
    /\ UNCHANGED <<bufferVars, emergencyFn, sharding, cfg, flushing, backoffDuration, wakeCh,
                   connectCh, client, refs, shipper, sender, producer, reconnector,
                   observed>>

\* The life of a connection from its construction to the Close() of its
\* lane; only a lane that was returned logs and is closed.
NextCreate ==
    \/ \E c \in ReconnectConfigs : reconnector.calls = 0 /\ Reconnect(c)
    \/ AttachFirst
    \/ handle[1] = "attached" /\ LogAppendUpTo(1, MaxCreateLogs)
    \/ LogWake(1)
    \/ Detach(1)
    \/ ShipperConnect
    \/ ShipperNewClient
    \/ ShipperRefChange
    \/ ShipperWake
    \/ ShipperTimer
    \/ ShipperFinalFlush
    \/ ShipperWaitPrior
    \/ ShipperEmergency
    \/ ShipperWaitSend
    \/ ShipperFinalAck
    \/ \E s \in Senders : SenderStep(s)

\* Scheduling: the Shipper and the bulk-send goroutine run when they can,
\* select receives a request that is ready, a Bulk call returns.
FairCreate ==
    /\ SF_vars(ShipperConnect)
    /\ SF_vars(ShipperRefChange)
    /\ WF_vars(ShipperNewClient)
    /\ WF_vars(ShipperFinalFlush)
    /\ WF_vars(ShipperWaitPrior)
    /\ WF_vars(ShipperEmergency)
    /\ WF_vars(ShipperWaitSend)
    /\ WF_vars(ShipperFinalAck)
    /\ \A s \in Senders : WF_vars(SenderStep(s))

SpecCreate == InitCreate /\ [][NextCreate]_vars /\ FairCreate

\* A connection whose first handle stays open: records are shipped while a
\* derived handle attaches and detaches and Reconnect() is called.  No
\* detach is the last one, so flush(client, true) is never called.
InitServing == InitWith({OnlineConfig})

NextServing ==
    \/ LogAppendUpTo(1, MaxCallLogs)
    \/ LogWake(1)
    \/ \E h \in Handles : Attach(h)
    \/ \E h \in Handles \ {1} : Detach(h)
    \/ \E c \in ReconnectConfigs : Reconnect(c)
    \/ ShipperConnect
    \/ ShipperNewClient
    \/ ShipperRefChange
    \/ ShipperWake
    \/ ShipperTimer
    \/ \E s \in Senders : SenderStep(s)

\* Scheduling: the Shipper goroutine runs when it can and select receives a
\* request that stays ready.  Nothing is assumed of the bulk-send goroutine:
\* a Bulk call may take for ever.
FairServing ==
    /\ WF_vars(ShipperConnect)
    /\ WF_vars(ShipperRefChange)
    /\ WF_vars(ShipperNewClient)

SpecServing == InitServing /\ [][NextServing]_vars /\ FairServing

\* ------------------------------------------- the mutex, step by step
\* In the specifications above a critical section is one step, from
\* osc.mu.Lock() to osc.mu.Unlock(). Below, Lock() is a step of its own
\* that waits for the mutex, and the critical section that follows it is
\* the step of the goroutine that holds the mutex.

\* osc.mu.Lock() at line 103 (log() was called) and at line 133.
LogLock(p) ==
    /\ producer[p].pc \in {"idle", "dropped"}
    /\ producer[p].pc = "idle" => messagesQueued < MaxLogs
    /\ MuFree
    /\ producer' = [producer EXCEPT ![p].mu = TRUE]
    /\ UNCHANGED <<bufferVars, emergencyFn, sharding, cfg, flushing, backoffDuration, chanVars,
                   client, refs, shipper, sender, handle, reconnector, observed>>

\* osc.mu.Lock() of the goroutine at lines 310, 342, 350 and 315, and of
\* emergencyLog() at line 438.
SenderLock(s) ==
    /\ sender[s].pc \in {"start", "elog", "requeue", "lost", "sent", "defer"}
    /\ MuFree
    /\ sender' = [sender EXCEPT ![s].mu = TRUE]
    /\ UNCHANGED <<bufferVars, flushing, backoffDuration, observed>>
    /\ SenderUnchanged

\* lines 237-239: case <-osc.wakeCh, up to the call of flush(client, false).
ShipperSelectWake ==
    /\ shipper.pc = "select"
    /\ wakeCh > 0
    /\ wakeCh' = WakeReceived(wakeCh)
    /\ shipper' = [shipper EXCEPT !.pc = "flush"]
    /\ UNCHANGED <<bufferVars, emergencyFn, sharding, cfg, flushing, backoffDuration, refChangeCh,
                   connectCh, client, refs, sender, callerVars, observed>>

\* lines 241-243: case <-time.After(pumpInterval), up to the call of flush.
ShipperSelectTimer ==
    /\ shipper.pc = "select"
    /\ shipper' = [shipper EXCEPT !.pc = "flush"]
    /\ UNCHANGED <<bufferVars, emergencyFn, sharding, cfg, flushing, backoffDuration, chanVars,
                   client, refs, sender, callerVars, observed>>

\* flush(), lines 251-257: without a client a flush that is not final
\* returns at once; otherwise osc.mu.Lock().
ShipperFlushLock ==
    /\ shipper.pc \in {"flush", "finalFlush"}
    /\ IF NotConnected(client, shipper.pc = "finalFlush")
       THEN shipper' = IdleShipper
       ELSE MuFree /\ shipper' = [shipper EXCEPT !.mu = TRUE]
    /\ UNCHANGED <<bufferVars, emergencyFn, sharding, cfg, flushing, backoffDuration, chanVars,
                   client, refs, sender, callerVars, observed>>

\* lines 258-263 and flushInner(): the critical section of osc.flush(client, false).
ShipperFlush ==
    /\ shipper.pc = "flush"
    /\ flush(FALSE)
    /\ UNCHANGED <<messagesQueued, messagesSent, messagesSentFailed, emergencyFn, sharding, cfg,
                   chanVars, client, refs, callerVars, observed>>

\* line 389, err != nil: client.Bulk returned an error; emergencyLog() is
\* called next (line 399).
SenderBulkErr(s) ==
    /\ sender[s].pc = "bulk"
    /\ bulkFailures < MaxBulkFailures
    /\ bulkFailures' = bulkFailures + 1
    /\ sender' = [sender EXCEPT ![s].pc = "elog"]
    /\ UNCHANGED <<bufferVars, flushing, backoffDuration, acked, handoffs>>
    /\ SenderUnchanged

\* emergencyLog(), lines 438-440: ef := osc.emergencyFn under the lock. The
\* callback does not change once records are logged, so the value read here
\* is the one installed when the call is made.
SenderElogRead(s) ==
    /\ sender[s].pc = "elog"
    /\ sender' = [sender EXCEPT ![s].pc = "elogCall", ![s].mu = Unlocked]
    /\ UNCHANGED <<bufferVars, flushing, backoffDuration, observed>>
    /\ SenderUnchanged

\* emergencyLog(), lines 442-456: ef(logBuffer) with the diagnostic record;
\* then lines 324-330 compute the next delay.
SenderElogCall(s) ==
    /\ sender[s].pc = "elogCall"
    /\ handoffs' = emergencyLog(emergencyFn)
    /\ sender' = [sender EXCEPT ![s].pc = "decide", ![s].err = TRUE,
           ![s].backoffDuration = NextBackoff(sender[s].backoffDuration, cfg.BackoffInterval)]
    /\ UNCHANGED <<bufferVars, flushing, backoffDuration, acked, bulkFailures>>
    /\ SenderUnchanged

\* One producer, the Shipper with its final flush and the bulk-send
\* goroutines of a connected or an offline lane, contending for osc.mu.
InitLocks == InitWith(InitConfigs)

NextLocks ==
    \/ LogLock(1)
    \/ producer[1].mu /\ LogAppend(1)
    \/ LogWake(1)
    \/ producer[1].mu /\ LogDropAccount(1)
    \/ LogDropCallback(1)
    \/ \E fn \in EmergencyHandlers : MuFree /\ SetEmergencyHandler(fn)
    \/ Detach(1)
    \/ ShipperRefChange
    \/ ShipperSelectWake
    \/ ShipperSelectTimer
    \/ ShipperFlushLock
    \/ shipper.mu /\ ShipperFlush
    \/ shipper.mu /\ ShipperFinalFlush
    \/ ShipperWaitPrior
    \/ ShipperEmergency
    \/ ShipperWaitSend
    \/ ShipperFinalAck
    \/ \E s \in Senders : SenderLock(s)
    \/ \E s \in Senders : sender[s].mu /\ SenderStart(s)
    \/ \E s \in Senders : SenderBulkOk(s)
    \/ \E s \in Senders : SenderBulkErr(s)
    \/ \E s \in Senders : sender[s].mu /\ SenderElogRead(s)
    \/ \E s \in Senders : SenderElogCall(s)
    \/ \E s \in Senders : SenderDecide(s)
    \/ \E s \in Senders : SenderGiveUp(s)
    \/ \E s \in Senders : sender[s].mu /\ SenderRequeue(s)
    \/ \E s \in Senders : sender[s].mu /\ SenderCountFailed(s)
    \/ \E s \in Senders : sender[s].mu /\ SenderCountSent(s)
    \/ \E s \in Senders : sender[s].mu /\ SenderDefer(s)

SpecLocks == InitLocks /\ [][NextLocks]_vars

\* A connected lane with a working server where the second record logged
\* cannot be encoded; in every other specification all records encode.
InitEncoding == InitWith({OnlineConfig})

NextEncoding ==
    \/ \E p \in Producers : LogAppend(p)
    \/ \E p \in Producers : LogWake(p)
    \/ \E p \in Producers : LogDropAccount(p)
    \/ \E p \in Producers : LogDropCallback(p)
    \/ \E fn \in EmergencyHandlers : SetEmergencyHandler(fn)
    \/ ShipperWake
    \/ ShipperTimer
    \/ \E s \in Senders : SenderStart(s)
    \/ \E s \in Senders : Encodes(sender[s].batch) /\ SenderBulkOk(s)
    \/ \E s \in Senders : EncodeFails(s)
    \/ \E s \in Senders : SenderDecide(s)
    \/ \E s \in Senders : SenderGiveUp(s)
    \/ \E s \in Senders : SenderRequeue(s)
    \/ \E s \in Senders : SenderCountFailed(s)
    \/ \E s \in Senders : SenderCountSent(s)
    \/ \E s \in Senders : SenderDefer(s)

SpecEncoding == InitEncoding /\ [][NextEncoding]_vars

\* The callers of attach(), detach() and Reconnect() against a Shipper that
\* also ships (TestFinalLog: one record, then Close): one producer logs up
\* to MaxCallLogs records.
NextCalls ==
    \/ LogAppendUpTo(1, MaxCallLogs)
    \/ LogWake(1)
    \/ \E h \in Handles : Attach(h)
    \/ \E h \in Handles : Detach(h)
    \/ \E c \in ReconnectConfigs : Reconnect(c)
    \/ ShipperConnect
    \/ ShipperNewClient
    \/ ShipperRefChange
    \/ ShipperWake
    \/ ShipperTimer
    \/ ShipperFinalFlush
    \/ ShipperWaitPrior
    \/ ShipperEmergency
    \/ ShipperWaitSend
    \/ ShipperFinalAck
    \/ \E s \in Senders : SenderStep(s)

\* Scheduling: select picks among its ready cases at random, so a request
\* that is ready whenever the Shipper selects is received; the Shipper and
\* the bulk-send goroutine run when they can; a Bulk call returns.
FairCalls ==
    /\ SF_vars(ShipperConnect)
    /\ SF_vars(ShipperRefChange)
    /\ WF_vars(ShipperNewClient)
    /\ WF_vars(ShipperFinalFlush)
    /\ WF_vars(ShipperWaitPrior)
    /\ WF_vars(ShipperEmergency)
    /\ WF_vars(ShipperWaitSend)
    /\ WF_vars(ShipperFinalAck)
    /\ \A s \in Senders : WF_vars(SenderStep(s))

SpecCalls == Init /\ [][NextCalls]_vars /\ FairCalls

\* ------------------------------------------------------------ claims
InFlight == {s \in Senders : sender[s].pc = "bulk"}
Running == {s \in Senders : sender[s].pc # "free"}

\* C1: at any time at most one bulk send (Bulk call) is in flight per
\* Connection; indeed at most one bulk-send goroutine exists, and it is the
\* one the flushing marker names.
C1_SingleBulkInFlight ==
    /\ Cardinality(InFlight) <= 1
    /\ Cardinality(Running) <= 1
    /\ \A s \in Running : flushing = s

\* A Bulk call is in flight after a reconnect was acknowledged, records are
\* waiting and the Shipper is back at its select with a client.
C1_Witness ==
    /\ InFlight # {}
    /\ reconnector.calls > 0 /\ reconnector.pc = "idle" /\ reconnector.err = ""
    /\ Len(logBuffer) > 0
    /\ client = "client"
    /\ shipper.pc = "select"

\* ----- what happened to the records, read off the server and the callback
RECURSIVE Sum(_)
Sum(f) ==
    IF DOMAIN f = {} THEN 0
    ELSE LET x == CHOOSE y \in DOMAIN f : TRUE
         IN  f[x] + Sum([y \in DOMAIN f \ {x} |-> f[y]])

Occurrences(r, seq) == Cardinality({i \in DOMAIN seq : seq[i] = r})
IsAscending(seq) == \A i, j \in DOMAIN seq : i < j => seq[i] < seq[j]
Records == 1..messagesQueued

Handoffs(kinds) == {e \in BagToSet(handoffs) : e.kind \in kinds}
LostKinds == {"drop", "giveup", "offline"}
\* number of times record r was given up (handed to the callback, or lost
\* with no callback installed)
TimesLost(r) ==
    Sum([e \in Handoffs(LostKinds) |-> CopiesIn(e, handoffs) * Occurrences(r, e.batch)])
\* number of records in the batches given up by the paths named in kinds
RecordsLost(kinds) ==
    Sum([e \in Handoffs(kinds) |-> CopiesIn(e, handoffs) * Len(e.batch)])
Invocations(kinds) ==
    Sum([e \in Handoffs(kinds) |-> CopiesIn(e, handoffs)])

SendersAt(pcs) == {s \in Senders : sender[s].pc \in pcs}
BatchSizes(S) == Sum([s \in S |-> Len(sender[s].batch)])
ProducersAt(pcs) == {p \in Producers : producer[p].pc \in pcs}
DropSizes(P) == Sum([p \in P |-> Len(producer[p].dropped)])

\* The last detach() has returned and no log() call overlapped or followed it.
ClosedQuietly ==
    /\ shipper.pc = "done"
    /\ messagesQueued = shipper.reqQueued
    /\ \A p \in Producers : producer[p].pc = "idle"

C3_OrderPreserved ==
    /\ IsAscending(acked)
    /\ IsAscending(logBuffer)
    /\ \A s \in SendersAt({"start", "bulk", "decide", "requeue"}) :
          IsAscending(sender[s].batch \o logBuffer)
    /\ \A s \in SendersAt({"sent"}) :
          \A i \in DOMAIN logBuffer : acked[Len(acked)] < logBuffer[i]

\* A failed batch has just been requeued ahead of a record admitted during
\* the attempt.
C3_Witness ==
    \E s \in SendersAt({"defer"}) :
        /\ sender[s].err
        /\ sender[s].batch # <<>>
        /\ Len(logBuffer) > Len(sender[s].batch)
        /\ SubSeq(logBuffer, 1, Len(sender[s].batch)) = sender[s].batch

\* C4 (as claimed): log() never waits for the Shipper; a caller about to
\* signal the wake channel can always complete its send or drop the signal.
C4_LogNeverWaits ==
    \A p \in Producers : producer[p].pc = "wake" => WakeSendReady

\* C5: after the final detach() has returned, with no log() overlapping or
\* following it, the buffer is empty, the flushing marker is cleared and no
\* bulk-send goroutine is left.
C5_DrainedAfterClose ==
    (shipper.pc = "done" /\ messagesQueued = shipper.reqQueued)
        => /\ logBuffer = <<>>
           /\ flushing = 0
           /\ Running = {}

\* The final detach() has returned, a Bulk call had failed before and the
\* final flush sent its batch.
C5_Witness ==
    /\ shipper.pc = "done"
    /\ messagesQueued = shipper.reqQueued
    /\ messagesQueued > 0
    /\ bulkFailures > 0
    /\ \E s \in Senders : sender[s].final /\ ~sender[s].err

\* C6: when the last detach() returns with an online client whose Bulk calls
\* all succeeded, every record admitted before detach() was called has been
\* received by the server, unless overflow dropped it, and sent counts them.
C6_CloseFlushesAll ==
    (shipper.pc = "done" /\ client = "client" /\ bulkFailures = 0)
        => /\ \A r \in 1..shipper.reqQueued :
                 \/ Occurrences(r, acked) = 1
                 \/ \E e \in Handoffs({"drop"}) : Occurrences(r, e.batch) = 1
                 \/ \E p \in ProducersAt({"wake", "dropped", "callback"}) :
                        Occurrences(r, producer[p].dropped) = 1
           /\ messagesSent = Len(acked)

\* The last detach() has returned and both records were sent, the last one
\* by the final flush.
C6_Witness ==
    /\ shipper.pc = "done" /\ client = "client" /\ bulkFailures = 0
    /\ shipper.reqQueued = MaxLogs
    /\ messagesSent = MaxLogs
    /\ \E s \in Senders : sender[s].final /\ sender[s].batch # <<>>

\* The bulk-send goroutine of the final flush, once it has ended in an error.
FailedFinalSenders ==
    {s \in Senders : sender[s].final /\ sender[s].err /\ sender[s].pc = "free"}

\* C7: when the Bulk call of the final flush fails, detach() returns only
\* after the batch was handed to the callback read at take time (once) and
\* counted in sentFailed; the batch is not requeued, not sent again, and the
\* callback installed at the time of the failure got a diagnostic record.
C7_FinalFailureGivesUp ==
    /\ \A s \in Senders : (sender[s].final /\ sender[s].pc # "free")
          => /\ shipper.pc = "waitSend" /\ shipper.pwg = s
             /\ sender[s].pc # "requeue"
    /\ shipper.pc \in {"finalAck", "done"} =>
          /\ Running = {}
          /\ \A s \in FailedFinalSenders :
                /\ CopiesIn([fn |-> sender[s].ef, batch |-> sender[s].batch,
                             kind |-> "giveup"], handoffs) = 1
                /\ \A i \in DOMAIN sender[s].batch :
                      /\ Occurrences(sender[s].batch[i], logBuffer) = 0
                      /\ Occurrences(sender[s].batch[i], acked) = 0
                      /\ TimesLost(sender[s].batch[i]) = 1
                /\ messagesSentFailed
                      = RecordsLost({"drop", "giveup"}) + DropSizes(ProducersAt({"callback"}))
                /\ emergencyFn # "nil" => Invocations({"diagnostic"}) >= 1

\* The last detach() has returned after the Bulk call of its final flush
\* failed, with a callback installed.
C7_Witness ==
    /\ shipper.pc = "done"
    /\ FailedFinalSenders # {}
    /\ emergencyFn # "nil"
    /\ messagesSentFailed > 0

\* C8: a final flush with no client or no index hands the whole buffer to
\* the callback in one invocation, in admission order, and starts no bulk
\* send: no goroutine exists while or after it does so.
C8_FinalOfflineHandoff ==
    /\ [][(shipper.pc = "finalFlush" /\ shipper'.pc # "finalFlush"
           /\ (client = "nil" \/ cfg.OpenSearchIndex = "") /\ flushing = 0
           /\ logBuffer # <<>>)
          => (/\ shipper'.pc = "emergency"
              /\ shipper'.batch = logBuffer
              /\ IsAscending(logBuffer)
              /\ logBuffer' = <<>>
              /\ sender' = sender)]_vars
    /\ [][(shipper.pc = "emergency" /\ shipper.final /\ shipper'.pc # "emergency")
          => (/\ handoffs' = handoffs (+) SetToBag({[fn |-> shipper.ef,
                                  batch |-> shipper.batch, kind |-> "offline"]})
              /\ shipper'.pc = "finalAck"
              /\ sender' = sender
              /\ Running = {})]_vars
    /\ [](Invocations({"offline"}) <= 1)

\* The last detach() has returned after its final flush handed two buffered
\* records to the installed callback while offline.
C8_Witness ==
    /\ shipper.pc = "done"
    /\ client = "nil"
    /\ \E e \in Handoffs({"offline"}) : Len(e.batch) > 1 /\ e.fn # "nil"

\* The Shipper is in its loop (not draining, not terminated).
InLoop == shipper.pc \in {"select", "newClient"} \/ (shipper.pc = "emergency" /\ ~shipper.final)

\* C9: the Shipper loop runs exactly while refs > 0, refs counts the lanes
\* that attached and whose detach was not yet served, and the final flush
\* is entered only for the detach() that brings refs to 0.
C9_RunsWhileReferenced ==
    /\ refs >= 0
    /\ InLoop <=> refs > 0
    /\ refs = Cardinality({h \in Handles : handle[h] \in {"attached", "detaching"}})
              - (IF InLoop \/ shipper.pc = "done" THEN 0 ELSE 1)
    /\ ~InLoop => shipper.req \in Handles

\* A derived lane was closed while the first lane stays attached: the
\* Shipper is still in its loop.
C9_Witness ==
    /\ handle[2] = "closed"
    /\ handle[1] = "attached"
    /\ refs = 1
    /\ shipper.pc = "select"

\* C10: under heavy concurrent logging with LogThreshold = 1, every log()
\* call in progress returns, unless the Shipper leaves its loop first.
C10_LogReturns ==
    \A p \in Producers : (producer[p].pc # "idle") ~> (producer[p].pc = "idle" \/ ~InLoop)

\* A producer is blocked on the full wake channel while another producer's
\* record is in flight and the Shipper is in its loop.
C10_Witness ==
    /\ \E p \in Producers : producer[p].pc = "wake"
    /\ ~WakeSendReady
    /\ InFlight # {}
    /\ InLoop

\* C11 (as claimed): every attach(), detach() and Reconnect() call whose
\* request was submitted is eventually acknowledged and returns.
C11_EveryCallReturns ==
    /\ \A h \in Handles : (handle[h] = "attaching") ~> (handle[h] = "attached")
    /\ \A h \in Handles : (handle[h] = "detaching") ~> (handle[h] = "closed")
    /\ (reconnector.pc = "waiting") ~> (reconnector.pc = "idle")

\* C11 (amended): every attach() and detach() call made on an open lane
\* returns, and a Reconnect() call returns unless the Shipper terminates
\* before it receives the request.
C11_CallsReturnWhileShipperRuns ==
    /\ \A h \in Handles : (handle[h] = "attaching") ~> (handle[h] = "attached")
    /\ \A h \in Handles : (handle[h] = "detaching") ~> (handle[h] = "closed")
    /\ (reconnector.pc = "waiting") ~> (reconnector.pc = "idle" \/ shipper.pc = "done")

\* A Reconnect() is waiting for its acknowledgement while a detach() waits
\* in the channel and a Bulk call is in flight.
C11_Witness ==
    /\ reconnector.pc = "waiting"
    /\ \E h \in Handles : handle[h] = "detaching"
    /\ InFlight # {}

\* C12: in every stats() snapshot (any state, as stats() reads the three
\* counters under the lock) queued >= sent + sentFailed, and no step
\* decreases queued, sent or sentFailed.
C12_CountersConsistent ==
    /\ [](messagesQueued >= messagesSent + messagesSentFailed)
    /\ [][/\ messagesQueued' >= messagesQueued
          /\ messagesSent' >= messagesSent
          /\ messagesSentFailed' >= messagesSentFailed]_vars

\* Every admitted record is accounted: one was sent after a retry, the
\* other was dropped on overflow or given up.
C12_Witness ==
    /\ messagesQueued = MaxLogs
    /\ messagesSent > 0
    /\ messagesSentFailed > 0
    /\ messagesQueued = messagesSent + messagesSentFailed
    /\ bulkFailures > 0

\* The records taken out of the buffer whose outcome is not yet accounted:
\* the batch of the bulk-send goroutine, or the batch the Shipper is handing
\* to the callback.
InFlightSize ==
    BatchSizes(SendersAt({"start", "bulk", "decide", "requeue", "giveup", "lost", "sent"}))
        + (IF shipper.pc = "emergency" THEN Len(shipper.batch) ELSE 0)

\* C13 (as claimed): at every lock boundary pending = queued - sent is the
\* number of records not yet acknowledged: those in the buffer plus those
\* of the batch in flight.
C13_PendingIsUnacknowledged ==
    messagesQueued - messagesSent = Len(logBuffer) + InFlightSize

\* C14 (as claimed): the buffer never holds more than MaxBufferSize
\* records, whatever log() calls, flushes and requeues happened.
C14_BufferBounded ==
    Len(logBuffer) <= cfg.MaxBufferSize

Min(a, b) == IF a <= b THEN a ELSE b

\* C15 (as claimed): a log() call made with pending = queued - sent >=
\* MaxBufferSize drops exactly min(pending + 1 - MaxBufferSize, len(buffer))
\* records, and a call made with pending < MaxBufferSize drops none.
C15_DropCount ==
    [][messagesQueued' = messagesQueued + 1 =>
          LET pending == messagesQueued - messagesSent
              droppedCount == (Len(logBuffer) + 1) - Len(logBuffer')
          IN  droppedCount =
                  IF pending >= cfg.MaxBufferSize
                  THEN Min((pending + 1) - cfg.MaxBufferSize, Len(logBuffer))
                  ELSE 0]_vars

\* The records log() calls have dropped so far.
DroppedRecords ==
    UNION {{producer[p].dropped[i] : i \in DOMAIN producer[p].dropped} : p \in Producers}
        \cup UNION {{e.batch[i] : i \in DOMAIN e.batch} : e \in Handoffs({"drop"})}

\* C16: a log() call drops a prefix of the buffer, which is in admission
\* order (the oldest records still buffered), keeps the rest in place and
\* leaves the batch in flight alone; no record of a batch in flight was
\* ever dropped by log().
C16_OnlyOldestDropped ==
    /\ [][messagesQueued' = messagesQueued + 1 =>
            /\ IsAscending(logBuffer)
            /\ \E k \in 0..Len(logBuffer) :
                   /\ logBuffer' = Append(SubSeq(logBuffer, k + 1, Len(logBuffer)),
                                          messagesQueued + 1)
                   /\ \E p \in Producers :
                          /\ producer[p].pc = "idle"
                          /\ producer'[p].dropped = SubSeq(logBuffer, 1, k)
                          /\ \A q \in Producers \ {p} : producer'[q] = producer[q]
            /\ sender' = sender
            /\ shipper' = shipper]_vars
    /\ [](\A s \in SendersAt({"start", "bulk", "decide", "requeue", "giveup", "lost", "sent"}) :
             \A i \in DOMAIN sender[s].batch : sender[s].batch[i] \notin DroppedRecords)

\* A log() call has dropped the buffered records while an older batch is
\* in flight.
C16_Witness ==
    \E p \in Producers, s \in InFlight :
        /\ Len(producer[p].dropped) > 0
        /\ Len(sender[s].batch) > 0
        /\ sender[s].batch[Len(sender[s].batch)] < producer[p].dropped[1]

\* C17: a log() call that dropped k > 0 records increases sentFailed by
\* exactly k and then makes one invocation of the callback it read (if one
\* is installed) with exactly those k records; and offline with
\* MaxBufferSize = 10, once 11 log() calls have returned, the callback got
\* record 1 in its only invocation and the stats are {11, 0, 1}.
C17_DropHandedAndCounted ==
    /\ [][\A p \in Producers :
            (producer[p].pc \in {"wake", "dropped"} /\ producer'[p].pc = "idle")
                => producer[p].dropped = <<>>]_vars
    /\ [][\A p \in Producers :
            (producer[p].pc = "dropped" /\ producer'[p].pc # "dropped")
                => /\ Len(producer[p].dropped) > 0
                   /\ messagesSentFailed' = messagesSentFailed + Len(producer[p].dropped)
                   /\ producer'[p] = [producer[p] EXCEPT !.pc = "callback", !.ef = emergencyFn]
                   /\ handoffs' = handoffs]_vars
    /\ [][\A p \in Producers :
            (producer[p].pc = "callback" /\ producer'[p].pc # "callback")
                => /\ handoffs' = handoffs (+) SetToBag({[fn |-> producer[p].ef,
                                        batch |-> producer[p].dropped, kind |-> "drop"]})
                   /\ producer'[p].pc = "idle"
                   /\ messagesSentFailed' = messagesSentFailed]_vars
    /\ []((/\ cfg.offline /\ cfg.MaxBufferSize = 10
           /\ messagesQueued = 11
           /\ \A p \in Producers : producer[p].pc = "idle")
             => /\ messagesSent = 0
                /\ messagesSentFailed = 1
                /\ Handoffs({"drop"}) = {[fn |-> emergencyFn, batch |-> <<1>>, kind |-> "drop"]}
                /\ Invocations({"drop"}) = 1)

\* Offline with MaxBufferSize = 10 and a callback installed, the 11th
\* log() call has returned after handing record 1 to the callback.
C17_Witness ==
    /\ cfg.offline /\ cfg.MaxBufferSize = 10
    /\ emergencyFn # "nil"
    /\ messagesQueued = 11
    /\ \A p \in Producers : producer[p].pc = "idle"
    /\ CopiesIn([fn |-> emergencyFn, batch |-> <<1>>, kind |-> "drop"], handoffs) = 1
    /\ messagesSentFailed = 1

\* The n most recently admitted records, in admission order.
MostRecent(n) == [i \in 1..n |-> (messagesQueued - n) + i]

\* C18 (as claimed): offline, where no flush takes the buffer, after n
\* log() calls the buffer holds the most recent min(n, MaxBufferSize)
\* records.
C18_OfflineKeepsMostRecent ==
    cfg.offline => logBuffer = MostRecent(Min(messagesQueued, cfg.MaxBufferSize))

\* Record r was received by the server and is counted in sent.
SentAndCounted(r) == \E i \in DOMAIN acked : acked[i] = r /\ i <= messagesSent

InBuffer(r) == \E i \in DOMAIN logBuffer : logBuffer[i] = r

\* C19: while the lane has a client whose Bulk calls succeed (from the
\* start, or after Reconnect() from offline), every record in the buffer
\* is eventually received by the server and counted in sent, unless an
\* overflow drops it or the lane loses its client first (a later
\* Reconnect() whose client cannot be built); the server receives records
\* in admission order and a successful send leaves sentFailed alone.
C19_BufferedEventuallySent ==
    /\ \A r \in 1..MaxOnlineLogs :
          (client = "client" /\ InBuffer(r))
              ~> (SentAndCounted(r) \/ r \in DroppedRecords \/ client = "nil")
    /\ [](IsAscending(acked))
    /\ [][messagesSent' # messagesSent =>
            /\ messagesSentFailed' = messagesSentFailed
            /\ messagesSent' = Len(acked)]_vars

\* Records buffered while offline were sent, in order, after Reconnect().
C19_Witness ==
    /\ reconnector.calls > 0 /\ reconnector.err = ""
    /\ client = "client"
    /\ Len(acked) >= 2
    /\ messagesSent = Len(acked)
    /\ \E s \in Senders : Len(sender[s].batch) >= 2 /\ sender[s].pc = "free"

\* C20: a bulk send starts with the backoffDuration it reads; when its Bulk
\* call fails it computes backoffInterval if it started with 0 and twice
\* the delay it started with otherwise; a batch that is requeued keeps
\* that delay, and the goroutine publishes it as the new backoffDuration
\* when it ends.
C20_ExponentialBackoff ==
    /\ [][\A s \in Senders :
            (sender[s].pc = "start" /\ sender'[s].pc = "bulk")
                => sender'[s].backoffDuration = backoffDuration]_vars
    /\ [][\A s \in Senders :
            (sender[s].pc = "bulk" /\ sender'[s].pc = "decide")
                => sender'[s].backoffDuration =
                       IF sender[s].backoffDuration = 0 THEN cfg.BackoffInterval
                       ELSE 2 * sender[s].backoffDuration]_vars
    /\ [][\A s \in Senders :
            (sender[s].pc \in {"decide", "requeue"} /\ sender'[s].pc \in {"requeue", "defer"})
                => /\ sender'[s].backoffDuration = sender[s].backoffDuration
                   /\ sender[s].backoffDuration <= cfg.BackoffLimit
                   /\ backoffDuration' = backoffDuration]_vars
    /\ [][\A s \in Senders :
            (sender[s].pc = "defer" /\ sender'[s].pc = "free")
                => backoffDuration' = sender[s].backoffDuration]_vars

\* After a second failed attempt the batch is back in the buffer and the
\* published delay is twice the backoff interval.
C20_Witness ==
    /\ bulkFailures = 2
    /\ backoffDuration = 2 * cfg.BackoffInterval
    /\ Running = {}
    /\ \E s \in Senders :
          /\ sender[s].err
          /\ sender[s].batch # <<>>
          /\ SubSeq(logBuffer, 1, Len(sender[s].batch)) = sender[s].batch

\* C21: after a failed non-final send the batch is given up exactly when
\* the computed delay exceeds BackoffLimit: it is then handed to the
\* callback read at take time, the delay is reset to BackoffInterval, the
\* batch is counted in sentFailed and the buffer is left alone. Otherwise
\* the whole batch is put back at the head of the buffer and neither sent
\* nor sentFailed changes.
C21_GiveUpOrRequeue ==
    /\ [][\A s \in Senders :
            (sender[s].pc = "decide" /\ sender'[s].pc # "decide" /\ ~sender[s].final)
                => /\ sender'[s].pc =
                          IF sender[s].backoffDuration > cfg.BackoffLimit
                          THEN "giveup" ELSE "requeue"
                   /\ UNCHANGED <<bufferVars, handoffs>>]_vars
    /\ [][\A s \in Senders :
            (sender[s].pc = "giveup" /\ sender'[s].pc # "giveup")
                => /\ handoffs' = handoffs (+) SetToBag({[fn |-> sender[s].ef,
                                        batch |-> sender[s].batch, kind |-> "giveup"]})
                   /\ sender'[s].backoffDuration = cfg.BackoffInterval
                   /\ sender'[s].pc = "lost"
                   /\ UNCHANGED bufferVars]_vars
    /\ [][\A s \in Senders :
            (sender[s].pc = "lost" /\ sender'[s].pc # "lost")
                => /\ messagesSentFailed' = messagesSentFailed + Len(sender[s].batch)
                   /\ sender'[s].backoffDuration = sender[s].backoffDuration
                   /\ UNCHANGED <<logBuffer, messagesQueued, messagesSent, handoffs>>]_vars
    /\ [][\A s \in Senders :
            (sender[s].pc = "requeue" /\ sender'[s].pc # "requeue")
                => /\ logBuffer' = sender[s].batch \o logBuffer
                   /\ UNCHANGED <<messagesQueued, messagesSent, messagesSentFailed,
                                  handoffs>>]_vars
    /\ [](\A s \in SendersAt({"giveup", "lost"}) :
             \A i \in DOMAIN sender[s].batch : ~InBuffer(sender[s].batch[i]))

\* A batch was requeued after a first failure and given up after the
\* second, by a non-final send, with a callback installed.
C21_Witness ==
    /\ bulkFailures = 2
    /\ \E s \in Senders :
          /\ sender[s].pc = "free" /\ sender[s].err /\ ~sender[s].final
          /\ sender[s].ef # "nil"
          /\ CopiesIn([fn |-> sender[s].ef, batch |-> sender[s].batch,
                       kind |-> "giveup"], handoffs) = 1
          /\ messagesSentFailed >= Len(sender[s].batch)
          /\ backoffDuration = cfg.BackoffInterval

\* C22: with a connected client whose Bulk calls all fail and no
\* Reconnect(), every admitted record is eventually given up (handed to the
\* callback, if one is installed) or dropped by overflow and handed over by
\* log(): no record is retried forever, and none is ever sent.
C22_RetriesBounded ==
    /\ \A r \in 1..MaxFailingLogs :
          (r <= messagesQueued) ~> (TimesLost(r) = 1)
    /\ [](acked = <<>> /\ messagesSent = 0)

\* Every record was admitted and lost: some were dropped by overflow, some
\* given up after retries, with a callback installed.
C22_Witness ==
    /\ messagesQueued = MaxFailingLogs
    /\ \A r \in Records : TimesLost(r) = 1
    /\ Handoffs({"giveup"}) # {} /\ Handoffs({"drop"}) # {}
    /\ emergencyFn # "nil"
    /\ bulkFailures > 2

\* Number of lost records the installed callback has been handed by the
\* paths named in kinds.
RecordsHanded(kinds) ==
    Sum([e \in {h \in Handoffs(kinds) : h.fn # "nil"} |->
            CopiesIn(e, handoffs) * Len(e.batch)])

\* C23 (as claimed): once the callback has run with a batch of lost records
\* (overflow drop or give-up), sentFailed includes that batch: a stats()
\* call at that moment reports at least the lost records handed over so far.
C23_CountedBeforeCallback ==
    messagesSentFailed >= RecordsHanded({"drop", "giveup"})

\* C24: a Reconnect() that fails with ErrIndexNameRequired submits nothing
\* and changes nothing but its caller's result: the effective config, the
\* client, backoffDuration, the buffer, the counters and the channels stay
\* as they are; and no online config without an index is ever submitted to
\* the Shipper or becomes effective.
C24_IndexRequired ==
    /\ [][(reconnector'.calls # reconnector.calls
            /\ reconnector'.err = "ErrIndexNameRequired")
          => /\ reconnector'.pc = "idle"
             /\ UNCHANGED <<cfg, client, backoffDuration, bufferVars, chanVars,
                            flushing, refs, shipper, sender>>]_vars
    /\ [](\A i \in DOMAIN connectCh :
             connectCh[i].config.offline \/ connectCh[i].config.OpenSearchIndex # "")
    /\ [](cfg.offline \/ cfg.OpenSearchIndex # "")
    /\ [](reconnector.err = "ErrIndexNameRequired" => reconnector.pc = "idle")

\* Reconnect() with a host, a transport and no index has returned
\* ErrIndexNameRequired while a record was buffered and a send in flight.
C24_Witness ==
    /\ reconnector.err = "ErrIndexNameRequired"
    /\ reconnector.calls = 1
    /\ logBuffer # <<>>
    /\ InFlight # {}
    /\ client = "client"

\* What the claim says connect() makes of a config.
Positive(v, d) == IF v > 0 THEN v ELSE d

Normalized(c) ==
    IF c.isNil
    THEN [offline |-> TRUE, OpenSearchIndex |-> "", LogThreshold |-> 100,
          MaxBufferSize |-> 100, BackoffInterval |-> 10, BackoffLimit |-> 600]
    ELSE [offline |-> (c.host = "" \/ ~c.transport), OpenSearchIndex |-> c.index,
          LogThreshold |-> Positive(c.LogThreshold, 100),
          MaxBufferSize |-> Positive(c.MaxBufferSize, 100),
          BackoffInterval |-> Positive(c.BackoffInterval, 10),
          BackoffLimit |-> Positive(c.BackoffLimit, 600)]

\* C25: the config connect() submits, and the Shipper makes effective, is
\* the given one with every zero or negative LogThreshold, MaxBufferSize,
\* BackoffInterval and BackoffLimit replaced by 100, 100, 10 s and 10 min;
\* a nil config, an empty host or a missing transport makes it offline,
\* which is accepted without error and leaves the lane without a client.
C25_ConfigNormalized ==
    /\ [](\A i \in DOMAIN connectCh :
             connectCh[i].config = Normalized(connectCh[i].given))
    /\ [][connectCh' # connectCh /\ connectCh # <<>> =>
            cfg' = Normalized(Head(connectCh).given)]_vars
    /\ [][(reconnector'.calls # reconnector.calls /\ reconnector'.err # "")
          => connectCh' = connectCh]_vars
    /\ [][(shipper.pc = "newClient" /\ shipper'.pc # "newClient" /\ cfg.offline)
          => (client' = "nil" /\ reconnector'.err = "" /\ reconnector'.pc = "idle")]_vars
    /\ [](/\ cfg.LogThreshold > 0 /\ cfg.MaxBufferSize > 0
          /\ cfg.BackoffInterval > 0 /\ cfg.BackoffLimit > 0)

\* A Reconnect() with a host but no transport and negative fields was
\* acknowledged: the lane is offline with the default values.
C25_Witness ==
    /\ reconnector.calls = 1 /\ reconnector.pc = "idle" /\ reconnector.err = ""
    /\ cfg.offline /\ client = "nil"
    /\ cfg.OpenSearchIndex = "testing"
    /\ cfg.LogThreshold = 100 /\ cfg.MaxBufferSize = 100
    /\ cfg.BackoffInterval = 10 /\ cfg.BackoffLimit = 600
    /\ shipper.pc = "select"

Held ==
    UNION ({{logBuffer[i] : i \in DOMAIN logBuffer},
            {acked[i] : i \in DOMAIN acked}}
           \cup {{sender[s].batch[i] : i \in DOMAIN sender[s].batch} : s \in Senders}
           \cup {{producer[p].dropped[i] : i \in DOMAIN producer[p].dropped} :
                     p \in Producers})

\* C27: a diagnostic record (record 0, appName "OpenSearchLane") reaches
\* only the emergency callback, alone in its batch, and is never in the
\* buffer, in a batch being sent, among the dropped or the sent records;
\* the step that emits one leaves the buffer, queued, sent and sentFailed
\* unchanged; with a callback installed every failed Bulk call emits
\* exactly one.
C27_DiagnosticsBypassBuffer ==
    /\ [](0 \notin Held)
    /\ [](\A e \in BagToSet(handoffs) :
             (e.kind = "diagnostic" \/ \E i \in DOMAIN e.batch : e.batch[i] = 0)
                 => (e.kind = "diagnostic" /\ e.batch = <<0>> /\ e.fn # "nil"))
    /\ [][Invocations({"diagnostic"})' # Invocations({"diagnostic"})
             => /\ Invocations({"diagnostic"})' = Invocations({"diagnostic"}) + 1
                /\ UNCHANGED <<bufferVars, acked>>]_vars
    /\ [][bulkFailures' # bulkFailures
             => /\ bulkFailures' = bulkFailures + 1
                /\ emergencyFn # "nil"
                     => Invocations({"diagnostic"})' = Invocations({"diagnostic"}) + 1]_vars
    /\ [](emergencyFn # "nil" => Invocations({"diagnostic"}) = bulkFailures)

\* Two Bulk calls failed with a callback installed, two diagnostic records
\* were handed to it, and the records logged are still only in the buffer
\* or in the failed batch.
C27_Witness ==
    /\ emergencyFn # "nil"
    /\ bulkFailures = 2
    /\ Invocations({"diagnostic"}) = 2
    /\ messagesQueued > 0
    /\ messagesSent = 0 /\ messagesSentFailed = 0

\* the step of the goroutine that holds the mutex: its critical section
HolderStep ==
    \/ \E p \in Producers : producer[p].mu /\ (LogAppend(p) \/ LogDropAccount(p))
    \/ shipper.mu /\ (ShipperFlush \/ ShipperFinalFlush)
    \/ \E s \in Senders :
          sender[s].mu /\ (\/ SenderStart(s) \/ SenderElogRead(s) \/ SenderRequeue(s)
                           \/ SenderCountFailed(s) \/ SenderCountSent(s)
                           \/ SenderDefer(s))

\* C28: a goroutine does not hold osc.mu while it calls the emergency
\* callback, has a Bulk call in flight, sends on wakeCh or waits for an
\* in-flight flush. At most one goroutine holds the mutex, the holder can
\* always take its next step, and that step releases the mutex without a
\* send, a callback or a Bulk call: whoever calls Lock(), a callback
\* included, gets the mutex.
C28_MutexNeverHeldWhileBlocking ==
    /\ [](\A p \in Producers : producer[p].pc \in {"wake", "callback"} => ~producer[p].mu)
    /\ [](\A s \in Senders :
             sender[s].pc \in {"bulk", "elogCall", "decide", "giveup", "free"}
                 => ~sender[s].mu)
    /\ [](shipper.pc \in {"select", "emergency", "waitPrior", "waitSend", "finalAck", "done"}
             => ~shipper.mu)
    /\ [](Cardinality(Holders) <= 1)
    /\ [](MuFree \/ ENABLED HolderStep)
    /\ [][\A p \in Producers :
             (producer[p].mu /\ producer'[p] # producer[p])
                 => ~producer'[p].mu /\ UNCHANGED <<chanVars, observed>>]_vars
    /\ [][\A s \in Senders :
             (sender[s].mu /\ sender'[s] # sender[s])
                 => ~sender'[s].mu /\ UNCHANGED <<chanVars, observed>>]_vars
    /\ [][(shipper.mu /\ shipper' # shipper)
             => ~shipper'.mu /\ UNCHANGED <<chanVars, observed>>]_vars

\* log() is inside its critical section while the final flush waits for
\* its goroutine, whose failed batch is about to be handed to the callback.
C28_Witness ==
    /\ producer[1].mu
    /\ shipper.pc = "waitSend"
    /\ sender[shipper.pwg].pc = "giveup"
    /\ sender[shipper.pwg].ef # "nil"

\* C29: encoding a batch emits, for each record in order, an action line
\* and the record; the action line's index is the configured index, or
\* what the sharder returns for it when a sharder is installed and the
\* index is not empty; the sharder is invoked once per record, in batch
\* order (the i-th record of the batch gets the result of the i-th
\* invocation of this encoding).
C29_IndexPerRecord ==
    [][\A s \in Senders :
          (sender[s].pc = "start" /\ sender'[s].pc = "bulk")
              => LET batch == sender[s].batch
                     body == sender'[s].jsonData
                     index == cfg.OpenSearchIndex
                     sharded == sharderFn # "nil" /\ index # ""
                 IN  /\ Len(body) = 2 * Len(batch)
                     /\ \A i \in DOMAIN batch :
                           /\ body[(2 * i) - 1].create
                           /\ body[(2 * i) - 1].index =
                                  IF sharded
                                  THEN Shard(sharderFn, index, sharderCalls + i)
                                  ELSE IndexName(index, "")
                           /\ ~body[2 * i].create
                           /\ body[2 * i].record = batch[i]
                     /\ sharderCalls' =
                            sharderCalls + (IF sharded THEN Len(batch) ELSE 0)]_vars

\* TestSharding2: a batch of two records encoded with the counting sharder
\* for the indices testing-1 and testing-2, in that order.
C29_Witness ==
    \E s \in Senders :
        /\ sender[s].pc = "bulk"
        /\ Len(sender[s].batch) = 2
        /\ sender[s].jsonData[1].index = IndexName("testing", "1")
        /\ sender[s].jsonData[3].index = IndexName("testing", "2")
        /\ sharderCalls = 2

\* C30 (as claimed): at the step that acknowledges a Reconnect() without
\* error the effective config is the normalized new config, the client is
\* the one built for it (nil if it is offline) and backoffDuration is 0,
\* whatever a bulk send in flight does meanwhile.
C30_ReconnectResetsBackoff ==
    [][(reconnector.pc = "waiting" /\ reconnector'.pc = "idle" /\ reconnector'.err = "")
          => /\ cfg' \in {connect(c).cfg : c \in ReconnectConfigs}
             /\ client' = IF cfg'.offline THEN "nil" ELSE "client"
             /\ backoffDuration' = 0]_vars

\* C31: while the client is nil, a wake handled by the Shipper takes no
\* record from the buffer, changes no counter and no backoffDuration, and
\* starts neither an emergency handoff nor a bulk send (a timer tick then
\* changes nothing at all); as long as the client stays nil a record
\* leaves the buffer only by an overflow drop of log() or by the final
\* flush of the last detach().
C31_OfflineFlushDoesNothing ==
    /\ [][(client = "nil" /\ shipper.pc = "select" /\ wakeCh' < wakeCh)
             => /\ shipper' = IdleShipper
                /\ UNCHANGED <<bufferVars, backoffDuration, flushing, sender, observed>>]_vars
    /\ [][(client = "nil" /\ client' = "nil"
              /\ \E i \in DOMAIN logBuffer : ~\E j \in DOMAIN logBuffer' :
                                                 logBuffer'[j] = logBuffer[i])
             => \/ \E p \in Producers : producer[p].pc = "idle" /\ producer'[p].pc # "idle"
                \/ shipper.pc = "finalFlush"]_vars

\* An offline lane (LogThreshold 2) whose second record raised a wake that
\* the Shipper has handled: the record logged last is still buffered and
\* nothing was handed over except what log() dropped.
C31_Witness ==
    /\ client = "nil" /\ cfg.offline
    /\ messagesQueued = 2 /\ wakeCh = 0
    /\ \A p \in Producers : producer[p].pc = "idle"
    /\ shipper.pc = "select"
    /\ logBuffer # <<>>
    /\ Handoffs({"offline", "giveup"}) = {}
    /\ \A s \in Senders : sender[s].pc = "free" /\ sender[s].batch = <<>>

\* the batch a flush that found the buffer non-empty has taken
TakenBatch ==
    IF shipper'.pc = "emergency" THEN shipper'.batch ELSE sender'[flushing'].batch

\* C32: while a send is in flight (the flushing marker is set), a wake or
\* timer flush returns without touching the buffer; a final flush waits
\* until the goroutine of that send has ended and only then becomes the
\* owner, taking the whole buffer; once the goroutine waited for has done
\* its accounting each record of its batch is acknowledged, given up, or
\* back in the buffer the final flush is about to take (unless a log()
\* has dropped it from there since).
C32_FlushWhileInFlight ==
    /\ [][(shipper.pc = "select" /\ flushing # 0 /\ wakeCh' < wakeCh)
             => /\ shipper' = IdleShipper
                /\ UNCHANGED <<bufferVars, backoffDuration, flushing, sender, observed>>]_vars
    /\ [][(shipper.pc = "finalFlush" /\ flushing # 0 /\ shipper' # shipper)
             => /\ shipper'.pc = "waitPrior" /\ shipper'.pwg = flushing
                /\ UNCHANGED <<bufferVars, backoffDuration, flushing, sender, observed>>]_vars
    /\ [][(shipper.pc = "waitPrior" /\ shipper' # shipper)
             => /\ sender[shipper.pwg].pc = "free" /\ flushing = 0
                /\ shipper'.pc = "finalFlush"
                /\ UNCHANGED <<bufferVars, backoffDuration, flushing, sender, observed>>]_vars
    /\ [][(shipper.pc = "finalFlush" /\ flushing = 0 /\ shipper' # shipper)
             => /\ logBuffer' = <<>>
                /\ logBuffer # <<>> => TakenBatch = logBuffer]_vars
    /\ [](shipper.pc = "waitPrior" /\ sender[shipper.pwg].pc \in {"defer", "free"}
             => \A i \in DOMAIN sender[shipper.pwg].batch :
                   LET r == sender[shipper.pwg].batch[i]
                   IN  \/ InBuffer(r) \/ SentAndCounted(r) \/ TimesLost(r) = 1
                       \/ \E p \in Producers : Occurrences(r, producer[p].dropped) = 1)

\* The final flush is waiting for a send that failed and has just put its
\* batch back at the head of the buffer.
C32_Witness ==
    /\ shipper.pc = "waitPrior"
    /\ LET s == shipper.pwg
       IN  /\ sender[s].pc = "defer" /\ sender[s].err /\ ~sender[s].final
           /\ sender[s].batch # <<>>
           /\ SubSeq(logBuffer, 1, Len(sender[s].batch)) = sender[s].batch

\* With LogThreshold 1 every log() emits a signal after its append, and a
\* signal waits in wakeCh until the Shipper handles it: the records
\* appended after the signal now in the channel was emitted belong to
\* producers still waiting to send theirs, so every record up to this
\* number was appended before that signal was emitted.
AppendedBeforeSignal == messagesQueued - Cardinality(ProducersAt({"wake"}))

\* the Shipper handles a wake signal
WakeHandled == shipper.pc = "select" /\ wakeCh' < wakeCh

\* C33 (as claimed): when the Shipper handles a wake signal, every record
\* appended before the signal was emitted and still in the buffer is taken
\* into the batch of the flush.
C33_WakeTakesEarlierRecords ==
    [][(WakeHandled /\ cfg.LogThreshold = 1)
          => \A r \in 1..AppendedBeforeSignal :
                InBuffer(r) => /\ flushing' # flushing
                               /\ Occurrences(r, sender'[flushing'].batch) = 1]_vars

\* C33 (amended): when the Shipper handles a wake signal with a client
\* and no send in flight, the whole buffer, hence every buffered record
\* appended before the signal was emitted, becomes the batch of the flush,
\* in order; with a send in flight or without a client the signal is
\* consumed and the buffer is left as it is.
C33_WakeTakesBufferWhenOwner ==
    /\ [][(WakeHandled /\ client # "nil" /\ flushing = 0 /\ logBuffer # <<>>)
             => /\ logBuffer' = <<>>
                /\ TakenBatch = logBuffer
                /\ \A r \in 1..AppendedBeforeSignal :
                      InBuffer(r) => Occurrences(r, TakenBatch) = 1]_vars
    /\ [][(WakeHandled /\ (client = "nil" \/ flushing # 0))
             => UNCHANGED <<bufferVars, flushing, sender, observed>>]_vars

\* Two records were appended before the Shipper handled the first wake
\* signal and both are in the batch of its flush, which is in flight.
C33_Witness ==
    \E s \in Senders :
        /\ flushing = s
        /\ sender[s].pc \in {"start", "bulk"}
        /\ sender[s].batch = <<1, 2>>
        /\ acked = <<>>

\* A bulk send that is not final has been started and has not resolved.
NonFinalInFlight ==
    \E s \in Senders : sender[s].pc \in {"start", "bulk"} /\ ~sender[s].final

\* C34: while a bulk send that is not final is in flight, the Shipper loop
\* keeps serving control events: an attach(), a detach() that is not the
\* last one and a Reconnect() are acknowledged even if that send never
\* resolves, and the loop never waits for the send.
C34_ControlServedDuringSend ==
    /\ \A h \in Handles :
          (NonFinalInFlight /\ handle[h] = "attaching") ~>
              (handle[h] = "attached")
    /\ \A h \in Handles \ {1} :
          (NonFinalInFlight /\ handle[h] = "detaching") ~>
              (handle[h] = "closed")
    /\ (NonFinalInFlight /\ reconnector.pc = "waiting") ~>
          (reconnector.pc = "idle")
    /\ [](NonFinalInFlight => shipper.pc \notin {"waitSend", "waitPrior"})

\* The Shipper is between the two steps of serving a Reconnect() while a
\* bulk send is at its Bulk call, after a derived handle was attached and
\* closed.
C34_Witness ==
    /\ \E s \in Senders : sender[s].pc = "bulk" /\ ~sender[s].final
    /\ shipper.pc = "newClient"
    /\ reconnector.pc = "waiting"
    /\ handle[2] = "closed"

\* A retriable failure has set backoffDuration and requeued its batch: the
\* delay is published, no send is in flight and nothing was given up.
BackingOff ==
    /\ backoffDuration > 0
    /\ flushing = 0
    /\ messagesSentFailed = 0
    /\ Len(logBuffer) > 0

\* A step that starts a bulk send.
SendStarts == flushing = 0 /\ flushing' # 0

\* C35: after a retriable failure has set backoffDuration = d and requeued
\* the batch, a bulk send is started only by a timer tick whose interval
\* is d: not by a wake signal, and not by a tick of another interval.
C35_RetryOnlyAtBackoffTick ==
    /\ [][(BackingOff /\ SendStarts) => wakeCh' = wakeCh]_vars
    /\ [][(BackingOff /\ SendStarts) => shipper.pumpInterval = backoffDuration]_vars

\* The Shipper is running and neither a log() call, nor a flush, nor a
\* callback is in progress.
Quiescent ==
    /\ shipper.pc = "select"
    /\ flushing = 0
    /\ \A s \in Senders : sender[s].pc = "free"
    /\ \A p \in Producers : producer[p].pc = "idle"

\* C36: while the Shipper is running, whenever no log() call, no flush and
\* no callback is in progress, the counters account for every record:
\* messagesQueued = messagesSent + messagesSentFailed + len(logBuffer).
C36_CountersAccountForRecords ==
    Quiescent =>
        messagesQueued = messagesSent + messagesSentFailed + Len(logBuffer)

\* Quiescent after one record was sent and one was given up or dropped.
C36_Witness ==
    /\ Quiescent
    /\ messagesSent = 1
    /\ messagesSentFailed = 1

\* C37 (as claimed): after the final detach() has returned, with no log()
\* overlapping or following it, messagesQueued = messagesSent +
\* messagesSentFailed: every admitted record is accounted as sent or as
\* failed, whichever path disposed of it.
C37_AccountedAfterClose ==
    ClosedQuietly => messagesQueued = messagesSent + messagesSentFailed

\* The invocations this step adds, of the kinds given.
NewHandoffs(kinds) ==
    {e \in BagToSet(handoffs') :
        e.kind \in kinds /\ CopiesIn(e, handoffs') > CopiesIn(e, handoffs)}

\* C38 (as claimed): once setEmergencyHandler(fn) has returned, every batch
\* the core gives up afterwards goes to fn, the callback installed at the
\* time of the handoff, also when the batch was taken before the call.
C38_DeliveredToInstalledHandler ==
    [][\A e \in NewHandoffs({"giveup", "offline"}) : e.fn = emergencyFn]_vars

\* C38 (amended): a batch the core gives up goes to the callback that was
\* installed when the batch was taken from the buffer: the taker reads the
\* installed callback, keeps it until the send resolves, and the handoff
\* goes to it whatever was installed since.
C38_DeliveredToHandlerAtTake ==
    [][/\ \A s \in Senders :
            /\ (sender[s].pc = "free" /\ sender'[s].pc # "free")
                   => sender'[s].ef = emergencyFn
            /\ (sender[s].pc # "free" /\ sender'[s].pc # "free")
                   => sender'[s].ef = sender[s].ef
            /\ (sender[s].pc = "giveup" /\ sender'[s].pc # "giveup")
                   => NewHandoffs({"giveup"}) =
                        {[fn |-> sender[s].ef, batch |-> sender[s].batch,
                          kind |-> "giveup"]}
       /\ (shipper.pc # "emergency" /\ shipper'.pc = "emergency")
              => shipper'.ef = emergencyFn
       /\ (shipper.pc = "emergency" /\ shipper'.pc # "emergency")
              => NewHandoffs({"offline"}) =
                   {[fn |-> shipper.ef, batch |-> shipper.batch,
                     kind |-> "offline"]}]_vars

\* A batch taken while fn1 was installed has been given up and handed to
\* fn1 although fn2 is installed now.
C38_Witness ==
    \E s \in Senders :
        /\ sender[s].pc = "lost"
        /\ sender[s].ef = "fn1"
        /\ emergencyFn = "fn2"
        /\ CopiesIn([fn |-> "fn1", batch |-> sender[s].batch, kind |-> "giveup"],
                    handoffs) > 0

\* The last Reconnect() returned the error of the client construction.
FailedReconnect == reconnector.pc = "idle" /\ reconnector.err = "ClientError"

\* C39: if the client construction fails during Reconnect(), the error is
\* returned to the caller, but the new config is effective and the client
\* is nil: the client that worked before is gone, and from then on no bulk
\* send is started (the connection behaves as offline).
C39_FailedReconnectLeavesOffline ==
    /\ [][(reconnector.pc = "waiting" /\ reconnector'.err = "ClientError")
            => /\ reconnector'.pc = "idle"
               /\ client' = "nil"
               /\ cfg' = cfg]_vars
    /\ [](FailedReconnect => (client = "nil" /\ cfg = connect(OnlineConfig).cfg))
    /\ [][FailedReconnect => ~SendStarts]_vars

\* A lane that had sent a record holds another one in its buffer after a
\* Reconnect() whose client construction failed.
C39_Witness ==
    /\ FailedReconnect
    /\ messagesSent = 1
    /\ logBuffer # <<>>
    /\ shipper.pc = "select"

\* newOpenSearchConnection() has returned an error: ErrIndexNameRequired or
\* the error of the client construction.
CreationFailed ==
    reconnector.pc = "idle" /\ reconnector.calls = 1 /\ reconnector.err # ""

\* C40 (as claimed): if creating the connection fails, the Shipper task
\* that was started for it terminates.
C40_FailedCreationStopsShipper == CreationFailed ~> (shipper.pc = "done")

====
